---- MODULE Spec2Model ----
(***************************************************************************)
(* Booking engine of paladium: the Booking collection, the transactional   *)
(* POST /api/booking route, the agent's prepareBooking / confirmBooking /  *)
(* cancelBooking functions, the availability helpers and the Booking       *)
(* pre-save hook.                                                          *)
(*                                                                         *)
(* Time is counted in hours since an epoch day 0 at 00:00 UTC.  A request  *)
(* date is a whole-day text (YYYY-MM-DD), written here as its day number;  *)
(* new Date(text) turns it into the instant of that day's UTC midnight.    *)
(***************************************************************************)
EXTENDS Integers, Sequences, FiniteSets, TLC

\* ------------------------------------------------------------------ bounds

\* Largest day number a request may name.
MaxDay == 3
\* Largest number of stored bookings, in-flight creations included.
MaxBookings == 2
\* Number of times the clock advances (by half a day each time).
MaxTicks == 2
\* Nightly price of the properties of the catalogue.
NightlyPrice == 3

\* ------------------------------------------------------- program constants

\* 1000 * 60 * 60 * 24 ms, in the model's unit (hours).
HoursPerDay == 24
\* 365 days, the longest stay.
MaxDurationDays == 365

\* ------------------------------------------------------------ the catalogue

Procs == {"r1", "r2"}
Guests == {"g1", "g2"}
Hosts == {"h1"}
Users == Guests \cup Hosts
NoUser == "nobody"
PropertyIds == {"p1", "p2"}
\* A well-formed id of no stored property.
GhostProperty == "p0"
Days == 0 .. MaxDay
Statuses == {"pending", "confirmed", "cancelled", "completed"}

\* User.role
role(u) == IF u \in Hosts THEN "host" ELSE "guest"

\* ------------------------------------------------------------------- dates

\* new Date("YYYY-MM-DD"): the UTC midnight of that day.
ParseDate(d) == d * HoursPerDay

\* new Date("YYYY-MM-DDTHH:00Z"): a date-time text parses to that instant.
ParseDateTime(d, h) == ParseDate(d) + h

\* The instant the clock shows at start: 00:00 UTC of day 1.
StartOfTime == ParseDate(1)

\* Math.ceil(x / y) for y > 0.
Ceil(x, y) == 0 - ((0 - x) \div y)

calculateNights(checkIn, checkOut) == Ceil(checkOut - checkIn, HoursPerDay)

calculateTotalPrice(pricePerNight, startDate, endDate) ==
  calculateNights(startDate, endDate) * pricePerNight

\* today.setHours(0, 0, 0, 0): the latest local midnight at or before t, for a
\* server whose local time is UTC + tz hours.
LocalMidnight(t, tz) == t - ((t + tz) % HoursPerDay)

\* Offsets (hours) of the server's local time from UTC.
TzOffsets == {0, 0 - (HoursPerDay \div 2)}

\* ------------------------------------------------------------- validation

\* validateBookingDates: the first failing check, or "valid".
validateBookingDates(startDate, endDate, t) ==
  IF startDate >= endDate THEN "invalid_order"
  ELSE IF startDate < t THEN "past"
  ELSE IF endDate - startDate > MaxDurationDays * HoursPerDay THEN "too_long"
  ELSE IF endDate - startDate < HoursPerDay THEN "too_short"
  ELSE "valid"

\* The date checks of POST /api/booking (no minimum duration).
PostValidateDates(startDate, endDate, t) ==
  IF startDate >= endDate THEN "invalid_order"
  ELSE IF startDate < t THEN "past"
  ELSE IF endDate - startDate > MaxDurationDays * HoursPerDay THEN "too_long"
  ELSE "valid"

\* The date checks of prepareBooking: order, then check-in before local midnight.
PrepareValidateDates(checkInDate, checkOutDate, t, zone) ==
  IF checkInDate >= checkOutDate THEN "invalid_order"
  ELSE IF checkInDate < LocalMidnight(t, zone) THEN "past"
  ELSE "valid"

\* ---------------------------------------------------------------- queries

\* Mutant: closed intervals, a stay that touches a booking counts as overlapping.
OverlapFilterClosed(b, propertyId, startDate, endDate) ==
  /\ b.propertyId = propertyId
  /\ b.status # "cancelled"
  /\ b.from <= endDate
  /\ b.to >= startDate

\* Mutant: the status is not looked at, a cancelled booking blocks.
OverlapFilterAnyStatus(b, propertyId, startDate, endDate) ==
  /\ b.propertyId = propertyId
  /\ b.from < endDate
  /\ b.to > startDate

\* Mutant: the property is not part of the filter.
OverlapFilterAnyProperty(b, propertyId, startDate, endDate) ==
  /\ b.status # "cancelled"
  /\ b.from < endDate
  /\ b.to > startDate

\* The filter of POST /api/booking and checkPropertyAvailability:
\* { propertyId, status: {$nin: ['cancelled']}, from < endDate, to > startDate }.
OverlapFilter(b, propertyId, startDate, endDate) ==
  /\ b.propertyId = propertyId
  /\ b.status # "cancelled"
  /\ b.from < endDate
  /\ b.to > startDate

\* Mutant: the first case takes a booking that ends on the check-in day.
ThreeCaseFilterClosed(b, propertyId, checkIn, checkOut) ==
  /\ b.propertyId = propertyId
  /\ b.status # "cancelled"
  /\ \/ (b.from <= checkIn /\ b.to >= checkIn)
     \/ (b.from < checkOut /\ b.to >= checkOut)
     \/ (b.from >= checkIn /\ b.to <= checkOut)

\* Mutant: every comparison strict, a booking of exactly the requested stay
\* matches no case.
ThreeCaseFilterStrict(b, propertyId, checkIn, checkOut) ==
  /\ b.propertyId = propertyId
  /\ b.status # "cancelled"
  /\ \/ (b.from < checkIn /\ b.to > checkIn)
     \/ (b.from < checkOut /\ b.to > checkOut)
     \/ (b.from > checkIn /\ b.to < checkOut)

\* The three-case $or filter of the agent's checkAvailability and of the
\* pre-save hook.
ThreeCaseFilter(b, propertyId, checkIn, checkOut) ==
  /\ b.propertyId = propertyId
  /\ b.status # "cancelled"
  /\ \/ (b.from <= checkIn /\ b.to > checkIn)
     \/ (b.from < checkOut /\ b.to >= checkOut)
     \/ (b.from >= checkIn /\ b.to <= checkOut)

\* Booking.find(filter): the ids of the overlapping bookings of a store.
overlappingBookings(store, propertyId, startDate, endDate) ==
  {i \in DOMAIN store : OverlapFilter(store[i], propertyId, startDate, endDate)}

\* POST's conflictDetails: the from and to of each overlapping booking.
conflictDetails(store, ids) == {[from |-> store[i].from, to |-> store[i].to] : i \in ids}

\* checkPropertyAvailability's conflictingBookings: id, from, to and status.
conflictingList(store, ids) ==
  {[id |-> i, from |-> store[i].from, to |-> store[i].to, status |-> store[i].status] :
     i \in ids}

\* checkAvailability: no booking matches the three-case filter.
checkAvailability(store, propertyId, checkIn, checkOut) ==
  ~ \E i \in DOMAIN store : ThreeCaseFilter(store[i], propertyId, checkIn, checkOut)

\* The findOne of the pre-save hook: some other booking matches.
PreSaveConflict(store, id, d) ==
  \E i \in DOMAIN store :
    i # id /\ ThreeCaseFilter(store[i], d.propertyId, d.from, d.to)

\* The pre-save hook on a new document: the error it passes to next(), or "ok".
PreSave(store, id, d) ==
  IF PreSaveConflict(store, id, d) THEN "conflict"
  ELSE IF d.from >= d.to THEN "invalid_order"
  ELSE "ok"

\* Mutant: the hook does not return early for a document that is not new and
\* whose dates are not modified.
preSaveAlways(store, id, d, modified, isNew) == PreSave(store, id, d)

\* The pre-save hook on any save: it returns at once when neither from nor to
\* is modified and the document is not new; otherwise the checks above.
preSave(store, id, d, modified, isNew) ==
  IF "from" \notin modified /\ "to" \notin modified /\ ~ isNew THEN "ok"
  ELSE PreSave(store, id, d)

\* Schema validation run by save(): totalPrice has min 0.
SchemaValid(d) == d.totalPrice >= 0

\* ------------------------------------------------------------------ state

VARIABLES
  now,            \* the server clock
  tz,             \* the server's offset from UTC
  properties,     \* Property collection: id -> nightly price
  bookings,       \* Booking collection: a booking's id is its index
  pc,             \* where each request handler stands
  req,            \* the arguments each handler was called with
  doc,            \* the Booking document a handler has built or loaded
  result,         \* the outcome each handler returned last
  conflictingBookings, \* the conflicting bookings listed in that answer
  results,        \* the list that answer carries (bulk check, listings)
  session,        \* the ClientSession calls of each POST /api/booking so far
  pendingBooking  \* Conversation.pendingBooking of each user

vars == <<now, tz, properties, bookings, pc, req, doc, result,
          conflictingBookings, results, session, pendingBooking>>

NoDoc == [propertyId |-> "none", guestId |-> NoUser, from |-> 0, to |-> 0,
          totalPrice |-> 0, status |-> "none"]
NoReq == [op |-> "none", user |-> NoUser, guestId |-> NoUser, propertyId |-> "none",
          from |-> 0, to |-> 0, totalPrice |-> 0, bookingId |-> 0]
NoQuote == [propertyId |-> "none", checkIn |-> 0, checkOut |-> 0, totalPrice |-> 0]

\* A handler is free when it has not started or has returned.
Free(p) == pc[p] \in {"idle", "done"}

\* Creations that have passed their checks and not yet written or failed.
InFlight == Cardinality({p \in Procs : pc[p] \in {"post_txn", "post_save",
              "post_commit", "cf_check", "cf_save", "cf_insert"}})

\* Room for one more creation.
Room == Len(bookings) + InFlight < MaxBookings

\* The handler returns an answer with its outcome, the conflicts it lists
\* and the list it carries.
Respond(p, outcome, conflicts, list) ==
  /\ pc' = [pc EXCEPT ![p] = "done"]
  /\ result' = [result EXCEPT ![p] = outcome]
  /\ conflictingBookings' = [conflictingBookings EXCEPT ![p] = conflicts]
  /\ results' = [results EXCEPT ![p] = list]

\* An answer that lists no conflicts and carries no list.
Finish(p, outcome) == Respond(p, outcome, {}, <<>>)

Goto(p, label) ==
  /\ pc' = [pc EXCEPT ![p] = label]
  /\ UNCHANGED <<result, conflictingBookings, results>>

Init ==
  /\ now = StartOfTime
  /\ tz = 0
  /\ properties = [i \in PropertyIds |-> NightlyPrice]
  /\ bookings = <<>>
  /\ pc = [p \in Procs |-> "idle"]
  /\ req = [p \in Procs |-> NoReq]
  /\ doc = [p \in Procs |-> NoDoc]
  /\ result = [p \in Procs |-> "none"]
  /\ conflictingBookings = [p \in Procs |-> {}]
  /\ results = [p \in Procs |-> <<>>]
  /\ session = [p \in Procs |-> <<>>]
  /\ pendingBooking = [u \in Users |-> NoQuote]

\* The clock advances by half a day.
Tick ==
  /\ now + (HoursPerDay \div 2) <= StartOfTime + MaxTicks * (HoursPerDay \div 2)
  /\ now' = now + (HoursPerDay \div 2)
  /\ UNCHANGED <<tz, properties, bookings, pc, req, doc, result,
                 conflictingBookings, results, session, pendingBooking>>

\* ------------------------------------------------------ POST /api/booking

\* What can go wrong before the transaction starts: auth() rejects, the body
\* is not JSON, a required field is missing, a date does not parse, dbConnect
\* rejects.
Faults == {"auth_throws", "bad_body", "missing_fields", "invalid_date", "db_down"}

PostReq(u, g, pid, f, t, price) ==
  [op |-> "post", user |-> u, guestId |-> g, propertyId |-> pid,
   from |-> f, to |-> t, totalPrice |-> price, bookingId |-> 0, fault |-> "none",
   fromTime |-> 0, toTime |-> 0]

\* The same request with date-time texts: the dates with a time of day (UTC).
PostAt(r, fromTime, toTime) == [r EXCEPT !.fromTime = fromTime, !.toTime = toTime]

\* The same request, hit by a fault.
PostFault(r, fault) == [r EXCEPT !.fault = fault]

\* ClientSession.inTransaction() after the calls of a log: a transaction has
\* been started and neither committed nor aborted.
inTransaction(log) ==
  \E i \in DOMAIN log :
    /\ log[i] = "startTransaction"
    /\ \A j \in (i + 1) .. Len(log) :
         log[j] \notin {"commitTransaction", "abortTransaction"}

\* A return inside the try block: the finally block ends the session.
PostReturn(p, log, outcome, conflicts) ==
  /\ Respond(p, outcome, conflicts, <<>>)
  /\ session' = [session EXCEPT ![p] = Append(log, "endSession")]

\* An error thrown inside the try block: the catch block calls
\* session.abortTransaction() first. With no transaction in progress the
\* driver rejects that call ('No transaction started'); the rejection leaves
\* the catch block, the finally block ends the session and the handler
\* throws. Otherwise the error becomes the 409, 400 or 500 answer.
PostCatch(p, log, error) ==
  /\ IF inTransaction(log) THEN Finish(p, error) ELSE Finish(p, "exception")
  /\ session' = [session EXCEPT ![p] = log \o <<"abortTransaction", "endSession">>]

\* mongoose.startSession(); auth(), the body, dbConnect, the date checks; then
\* session.startTransaction().
PostBegin(p, r) ==
  /\ Free(p)
  /\ Room
  /\ req' = [req EXCEPT ![p] = r]
  /\ doc' = [doc EXCEPT ![p] = NoDoc]
  /\ LET log == <<"startSession">>
         dates == PostValidateDates(ParseDateTime(r.from, r.fromTime),
                                    ParseDateTime(r.to, r.toTime), now)
     IN IF r.fault = "auth_throws" THEN PostCatch(p, log, "error")
        ELSE IF r.user = NoUser THEN PostReturn(p, log, "unauthorized", {})
        ELSE IF r.fault = "bad_body" THEN PostCatch(p, log, "error")
        ELSE IF r.fault = "missing_fields" THEN PostReturn(p, log, "missing_fields", {})
        ELSE IF r.fault = "db_down" THEN PostCatch(p, log, "error")
        ELSE IF r.fault = "invalid_date" THEN PostReturn(p, log, "invalid_date", {})
        ELSE IF dates # "valid" THEN PostReturn(p, log, dates, {})
        ELSE /\ Goto(p, "post_txn")
             /\ session' = [session EXCEPT ![p] = Append(log, "startTransaction")]
  /\ UNCHANGED <<now, tz, properties, bookings, pendingBooking>>

\* The reads of the transaction: the user, the property and the overlap query.
\* They all read the snapshot the transaction's first read opens, so they
\* see the store of one instant. Each refusal aborts the transaction first.
PostRead(p) ==
  /\ pc[p] = "post_txn"
  /\ LET r == req[p]
         startDate == ParseDateTime(r.from, r.fromTime)
         endDate == ParseDateTime(r.to, r.toTime)
         aborted == Append(session[p], "abortTransaction")
     IN IF role(r.user) # "guest"
          THEN PostReturn(p, aborted, "forbidden", {}) /\ UNCHANGED doc
        ELSE IF r.user # r.guestId
          THEN PostReturn(p, aborted, "unauthorized", {}) /\ UNCHANGED doc
        ELSE IF r.propertyId \notin DOMAIN properties
          THEN PostReturn(p, aborted, "property_not_found", {}) /\ UNCHANGED doc
        ELSE IF overlappingBookings(bookings, r.propertyId, startDate, endDate) # {}
          THEN /\ PostReturn(p, aborted, "conflict",
                    conflictDetails(bookings,
                      overlappingBookings(bookings, r.propertyId, startDate, endDate)))
               /\ UNCHANGED doc
        ELSE /\ Goto(p, "post_save")
             /\ doc' = [doc EXCEPT ![p] =
                  [propertyId |-> r.propertyId, guestId |-> r.guestId,
                   from |-> startDate, to |-> endDate,
                   totalPrice |-> r.totalPrice, status |-> "confirmed"]]
             /\ UNCHANGED session
  /\ UNCHANGED <<now, tz, properties, bookings, req, pendingBooking>>

\* Booking.create([...], { session }): schema validation, then the pre-save
\* hook, whose findOne is given no session and so reads the committed store of
\* the moment it runs. An error is caught: abortTransaction and 409, 400 or 500.
PostSave(p) ==
  /\ pc[p] = "post_save"
  /\ IF ~ SchemaValid(doc[p])
       THEN PostCatch(p, session[p], "error")
       ELSE IF PreSave(bookings, 0, doc[p]) # "ok"
         THEN PostCatch(p, session[p], PreSave(bookings, 0, doc[p]))
         ELSE Goto(p, "post_commit") /\ UNCHANGED session
  /\ UNCHANGED <<now, tz, properties, bookings, req, doc, pendingBooking>>

\* Mutant: the booking is stored as pending, to be confirmed later.
PostCommitPending(p) ==
  /\ pc[p] = "post_commit"
  /\ bookings' = Append(bookings, [doc[p] EXCEPT !.status = "pending"])
  /\ PostReturn(p, Append(session[p], "commitTransaction"), "created", {})
  /\ UNCHANGED <<now, tz, properties, req, doc, pendingBooking>>

\* session.commitTransaction(): the insert becomes visible. Two transactions
\* that insert different documents do not write-conflict.
PostCommit(p) ==
  /\ pc[p] = "post_commit"
  /\ bookings' = Append(bookings, doc[p])
  /\ PostReturn(p, Append(session[p], "commitTransaction"), "created", {})
  /\ UNCHANGED <<now, tz, properties, req, doc, pendingBooking>>

\* --------------------------------------------------------- confirmBooking

AgentReq(kind, u, pid, f, t) ==
  [op |-> kind, user |-> u, guestId |-> u, propertyId |-> pid,
   from |-> f, to |-> t, totalPrice |-> 0, bookingId |-> 0]

\* A confirm_booking tool call of the conversation of userId whose arguments
\* name a guestId of their own.
ToolCall(userId, g, pid, f, t) ==
  [op |-> "confirm", user |-> userId, guestId |-> g, propertyId |-> pid,
   from |-> f, to |-> t, totalPrice |-> 0, bookingId |-> 0, asked |-> g]

\* Mutant: { guestId: userId, ...functionArgs }, the arguments win.
confirmParamsArgsWin(functionArgs) == functionArgs

\* executeToolCall: confirmBooking is given { ...functionArgs, guestId: userId }.
confirmParams(functionArgs) == [functionArgs EXCEPT !.guestId = functionArgs.user]

\* Mutant: when the conversation holds a quote for the property and the dates,
\* the booking takes the quoted total instead of computing it.
ConfirmBeginTakesQuote(p, r) ==
  /\ Free(p)
  /\ Room
  /\ req' = [req EXCEPT ![p] = r]
  /\ session' = [session EXCEPT ![p] = <<>>]
  /\ IF r.propertyId \notin DOMAIN properties
       THEN Finish(p, "property_not_found") /\ doc' = [doc EXCEPT ![p] = NoDoc]
       ELSE /\ Goto(p, "cf_check")
            /\ doc' = [doc EXCEPT ![p] =
                 [propertyId |-> r.propertyId, guestId |-> r.guestId,
                  from |-> ParseDate(r.from), to |-> ParseDate(r.to),
                  totalPrice |->
                    IF /\ pendingBooking[r.user].propertyId = r.propertyId
                       /\ pendingBooking[r.user].checkIn = r.from
                       /\ pendingBooking[r.user].checkOut = r.to
                      THEN pendingBooking[r.user].totalPrice
                      ELSE calculateNights(ParseDate(r.from), ParseDate(r.to))
                             * properties[r.propertyId],
                  status |-> "confirmed"]]
  /\ UNCHANGED <<now, tz, properties, bookings, pendingBooking>>

\* confirm_booking of executeToolCall (guestId is the session's user):
\* Property.findById; the dates are parsed and not validated. The price is
\* the one read here (totalPrice = nights * property.price).
ConfirmBegin(p, r) ==
  /\ Free(p)
  /\ Room
  /\ req' = [req EXCEPT ![p] = r]
  /\ session' = [session EXCEPT ![p] = <<>>]
  /\ IF r.propertyId \notin DOMAIN properties
       THEN Finish(p, "property_not_found") /\ doc' = [doc EXCEPT ![p] = NoDoc]
       ELSE /\ Goto(p, "cf_check")
            /\ doc' = [doc EXCEPT ![p] =
                 [propertyId |-> r.propertyId, guestId |-> r.guestId,
                  from |-> ParseDate(r.from), to |-> ParseDate(r.to),
                  totalPrice |-> calculateNights(ParseDate(r.from), ParseDate(r.to))
                                   * properties[r.propertyId],
                  status |-> "confirmed"]]
  /\ UNCHANGED <<now, tz, properties, bookings, pendingBooking>>

\* "Double-check for conflicts": checkAvailability on the store of this moment.
ConfirmCheck(p) ==
  /\ pc[p] = "cf_check"
  /\ IF checkAvailability(bookings, doc[p].propertyId, doc[p].from, doc[p].to)
       THEN Goto(p, "cf_save")
       ELSE Finish(p, "conflict")
  /\ UNCHANGED <<session, now, tz, properties, bookings, req, doc, pendingBooking>>

\* Mutant: the document is inserted before the hook has answered.
ConfirmSaveInsertsFirst(p) ==
  /\ pc[p] = "cf_save"
  /\ bookings' = Append(bookings, doc[p])
  /\ IF ~ SchemaValid(doc[p])
       THEN Finish(p, "error")
       ELSE IF PreSave(bookings, 0, doc[p]) # "ok"
         THEN Finish(p, PreSave(bookings, 0, doc[p]))
         ELSE Finish(p, "created")
  /\ UNCHANGED <<session, now, tz, properties, req, doc, pendingBooking>>

\* Booking.create: schema validation and the pre-save hook's findOne.
ConfirmSave(p) ==
  /\ pc[p] = "cf_save"
  /\ IF ~ SchemaValid(doc[p])
       THEN Finish(p, "error")
       ELSE IF PreSave(bookings, 0, doc[p]) # "ok"
         THEN Finish(p, PreSave(bookings, 0, doc[p]))
         ELSE Goto(p, "cf_insert")
  /\ UNCHANGED <<session, now, tz, properties, bookings, req, doc, pendingBooking>>

\* Mutant: the conversation keeps its pending booking after the confirmation.
ConfirmInsertKeepsQuote(p) ==
  /\ pc[p] = "cf_insert"
  /\ bookings' = Append(bookings, doc[p])
  /\ Finish(p, "created")
  /\ UNCHANGED <<session, now, tz, properties, req, doc, pendingBooking>>

\* The insert of Booking.create; processAgentMessage then clears the
\* conversation's pending booking.
ConfirmInsert(p) ==
  /\ pc[p] = "cf_insert"
  /\ bookings' = Append(bookings, doc[p])
  /\ Finish(p, "created")
  /\ pendingBooking' = [pendingBooking EXCEPT ![req[p].user] = NoQuote]
  /\ UNCHANGED <<session, now, tz, properties, req, doc>>

\* --------------------------------------------------------- prepareBooking

\* Property.findById and the date checks.
PrepareBegin(p, r) ==
  /\ Free(p)
  /\ req' = [req EXCEPT ![p] = r]
  /\ session' = [session EXCEPT ![p] = <<>>]
  /\ doc' = [doc EXCEPT ![p] = NoDoc]
  /\ IF r.propertyId \notin DOMAIN properties
       THEN Finish(p, "property_not_found")
       ELSE IF PrepareValidateDates(ParseDate(r.from), ParseDate(r.to), now, tz) # "valid"
         THEN Finish(p, PrepareValidateDates(ParseDate(r.from), ParseDate(r.to), now, tz))
         ELSE Goto(p, "pr_check")
  /\ UNCHANGED <<now, tz, properties, bookings, pendingBooking>>

\* Mutant: the quote is stored as a pending booking that holds the dates.
PrepareCheckHolds(p) ==
  /\ pc[p] = "pr_check"
  /\ LET r == req[p]
     IN IF checkAvailability(bookings, r.propertyId, ParseDate(r.from), ParseDate(r.to))
          THEN /\ Finish(p, "quoted")
               /\ bookings' = Append(bookings,
                    [propertyId |-> r.propertyId, guestId |-> r.guestId,
                     from |-> ParseDate(r.from), to |-> ParseDate(r.to),
                     totalPrice |-> 0, status |-> "pending"])
          ELSE Finish(p, "conflict") /\ UNCHANGED bookings
  /\ UNCHANGED <<session, now, tz, properties, req, doc, pendingBooking>>

\* checkAvailability, then the quote; processAgentMessage stores it as the
\* conversation's pending booking.
PrepareCheck(p) ==
  /\ pc[p] = "pr_check"
  /\ LET r == req[p]
     IN IF checkAvailability(bookings, r.propertyId, ParseDate(r.from), ParseDate(r.to))
          THEN /\ Finish(p, "quoted")
               /\ pendingBooking' = [pendingBooking EXCEPT ![r.user] =
                    [propertyId |-> r.propertyId, checkIn |-> r.from, checkOut |-> r.to,
                     totalPrice |-> calculateNights(ParseDate(r.from), ParseDate(r.to))
                                      * properties[r.propertyId]]]
          ELSE Finish(p, "conflict") /\ UNCHANGED pendingBooking
  /\ UNCHANGED <<session, now, tz, properties, bookings, req, doc>>

\* ---------------------------------------------------------- cancelBooking

CancelReq(u, id) ==
  [op |-> "cancel", user |-> u, guestId |-> u, propertyId |-> "none",
   from |-> 0, to |-> 0, totalPrice |-> 0, bookingId |-> id]

\* Booking.findById(...).populate('propertyId'): the loaded document's
\* propertyId is the property's document, or null when no such property is
\* stored.
populate(b, catalogue) ==
  IF b.propertyId \in DOMAIN catalogue THEN b ELSE [b EXCEPT !.propertyId = "null"]

\* Mutant: the holder is not compared with the caller.
CancelBeginAnyUser(p, r) ==
  /\ Free(p)
  /\ req' = [req EXCEPT ![p] = r]
  /\ session' = [session EXCEPT ![p] = <<>>]
  /\ IF r.bookingId \notin DOMAIN bookings
       THEN Finish(p, "booking_not_found") /\ doc' = [doc EXCEPT ![p] = NoDoc]
     ELSE IF bookings[r.bookingId].status = "cancelled"
       THEN Finish(p, "already_cancelled") /\ doc' = [doc EXCEPT ![p] = NoDoc]
     ELSE /\ Goto(p, "cn_save")
          /\ doc' = [doc EXCEPT ![p] = populate(bookings[r.bookingId], properties)]
  /\ UNCHANGED <<now, tz, properties, bookings, pendingBooking>>

\* Booking.findById and the three checks.
CancelBegin(p, r) ==
  /\ Free(p)
  /\ req' = [req EXCEPT ![p] = r]
  /\ session' = [session EXCEPT ![p] = <<>>]
  /\ IF r.bookingId \notin DOMAIN bookings
       THEN Finish(p, "booking_not_found") /\ doc' = [doc EXCEPT ![p] = NoDoc]
     ELSE IF bookings[r.bookingId].guestId # r.user
       THEN Finish(p, "not_owner") /\ doc' = [doc EXCEPT ![p] = NoDoc]
     ELSE IF bookings[r.bookingId].status = "cancelled"
       THEN Finish(p, "already_cancelled") /\ doc' = [doc EXCEPT ![p] = NoDoc]
     ELSE /\ Goto(p, "cn_save")
          /\ doc' = [doc EXCEPT ![p] = populate(bookings[r.bookingId], properties)]
  /\ UNCHANGED <<now, tz, properties, bookings, pendingBooking>>

\* booking.status = 'cancelled'; booking.save(): the pre-save hook returns at
\* once (from and to are not modified, the document is not new) and the
\* status is written. The answer is then built from the populated property:
\* reading property.title of null throws.
CancelSave(p) ==
  /\ pc[p] = "cn_save"
  /\ LET id == req[p].bookingId
         booking == [doc[p] EXCEPT !.status = "cancelled"]
         hook == preSave(bookings, id, booking, {"status"}, FALSE)
     IN IF hook # "ok"
          THEN Finish(p, hook) /\ UNCHANGED bookings
          ELSE /\ bookings' = [bookings EXCEPT ![id].status = "cancelled"]
               /\ IF booking.propertyId = "null"
                    THEN Finish(p, "error")
                    ELSE Finish(p, "cancelled")
  /\ UNCHANGED <<session, now, tz, properties, req, doc, pendingBooking>>

\* ------------------------------------------------- GET /api/availability

AvailReq(pid, f, t) ==
  [op |-> "availability", user |-> NoUser, guestId |-> NoUser, propertyId |-> pid,
   from |-> f, to |-> t, totalPrice |-> 0, bookingId |-> 0]

\* Mutant: the property is not looked up.
checkPropertyAvailabilityNoLookup(store, catalogue, propertyId, startDate, endDate) ==
  IF overlappingBookings(store, propertyId, startDate, endDate) # {} THEN "conflict"
  ELSE "available"

\* checkPropertyAvailability: property lookup, then the overlap query.
checkPropertyAvailability(store, catalogue, propertyId, startDate, endDate) ==
  IF propertyId \notin DOMAIN catalogue THEN "property_not_found"
  ELSE IF overlappingBookings(store, propertyId, startDate, endDate) # {} THEN "conflict"
  ELSE "available"

\* The conflictingBookings checkPropertyAvailability returns with its answer.
availabilityConflicts(store, catalogue, propertyId, startDate, endDate) ==
  IF propertyId \notin DOMAIN catalogue THEN {}
  ELSE conflictingList(store, overlappingBookings(store, propertyId, startDate, endDate))

\* validateBookingDates, then checkPropertyAvailability.
AvailabilityGet(p, r) ==
  /\ Free(p)
  /\ req' = [req EXCEPT ![p] = r]
  /\ session' = [session EXCEPT ![p] = <<>>]
  /\ doc' = [doc EXCEPT ![p] = NoDoc]
  /\ IF validateBookingDates(ParseDate(r.from), ParseDate(r.to), now) # "valid"
       THEN Finish(p, validateBookingDates(ParseDate(r.from), ParseDate(r.to), now))
       ELSE Respond(p,
              checkPropertyAvailability(bookings, properties, r.propertyId,
                ParseDate(r.from), ParseDate(r.to)),
              availabilityConflicts(bookings, properties, r.propertyId,
                ParseDate(r.from), ParseDate(r.to)),
              <<>>)
  /\ UNCHANGED <<now, tz, properties, bookings, pendingBooking>>

\* ------------------------------------------------ POST /api/availability

BulkReq(pid, ranges) ==
  [op |-> "bulk", user |-> NoUser, guestId |-> NoUser, propertyId |-> pid,
   from |-> 0, to |-> 0, totalPrice |-> 0, bookingId |-> 0, dateRanges |-> ranges]

\* The entry of one range: the validation error, or the answer of
\* checkPropertyAvailability with its conflicts.
bulkEntry(store, catalogue, propertyId, range, t) ==
  LET startDate == ParseDate(range[1])
      endDate == ParseDate(range[2])
      dateValidation == validateBookingDates(startDate, endDate, t)
      availabilityCheck ==
        checkPropertyAvailability(store, catalogue, propertyId, startDate, endDate)
  IN IF dateValidation # "valid"
       THEN [from |-> range[1], to |-> range[2], available |-> FALSE,
             error |-> dateValidation, conflictingBookings |-> {}]
       ELSE [from |-> range[1], to |-> range[2],
             available |-> (availabilityCheck = "available"),
             error |-> IF availabilityCheck = "property_not_found"
                         THEN availabilityCheck ELSE "none",
             conflictingBookings |->
               availabilityConflicts(store, catalogue, propertyId, startDate, endDate)]

\* Mutant: the entries after the first range that fails validation are dropped.
bulkResultsStopAtInvalid(store, catalogue, propertyId, dateRanges, t) ==
  [k \in {j \in 1 .. Len(dateRanges) :
            \A h \in 1 .. (j - 1) :
              validateBookingDates(ParseDate(dateRanges[h][1]),
                                   ParseDate(dateRanges[h][2]), t) = "valid"}
     |-> bulkEntry(store, catalogue, propertyId, dateRanges[k], t)]

\* Promise.all(dateRanges.map(...)): one entry per range, in the order given.
bulkResults(store, catalogue, propertyId, dateRanges, t) ==
  [k \in 1 .. Len(dateRanges) |->
     bulkEntry(store, catalogue, propertyId, dateRanges[k], t)]

\* The bulk check; an empty dateRanges array is a 400.
AvailabilityPost(p, r) ==
  /\ Free(p)
  /\ req' = [req EXCEPT ![p] = r]
  /\ session' = [session EXCEPT ![p] = <<>>]
  /\ doc' = [doc EXCEPT ![p] = NoDoc]
  /\ IF Len(r.dateRanges) = 0
       THEN Finish(p, "missing_fields")
       ELSE Respond(p, "results", {},
              bulkResults(bookings, properties, r.propertyId, r.dateRanges, now))
  /\ UNCHANGED <<now, tz, properties, bookings, pendingBooking>>

\* ----------------------------------------------------------- the listings

ListReq(kind, u, pid, which) ==
  [op |-> kind, user |-> u, guestId |-> u, propertyId |-> pid,
   from |-> 0, to |-> 0, totalPrice |-> 0, bookingId |-> 0, status |-> which]

\* The UTC date of an instant, as getUTCFullYear/Month/Date and
\* toISOString().split('T')[0] print it.
FormatDate(t) == t \div HoursPerDay

\* Array.prototype.sort (stable) of bookings found in insertion order, by
\* from: sign = 1 sorts the soonest first, sign = -1 the most recent first.
SortByFrom(store, ids, sign) ==
  LET first(i, j) ==
        \/ sign * store[i].from < sign * store[j].from
        \/ store[i].from = store[j].from /\ i < j
  IN [k \in 1 .. Cardinality(ids) |->
        CHOOSE i \in ids : Cardinality({j \in ids : first(j, i)}) = k - 1]

\* The query of getMyBookings for a status argument.
myBookingsQuery(store, userId, which, t) ==
  {i \in DOMAIN store :
     /\ store[i].guestId = userId
     /\ which # "all" => store[i].status # "cancelled"
     /\ which = "upcoming" => store[i].from >= t
     /\ which = "past" => store[i].to < t}

\* getMyBookings: the upcoming bookings, soonest first, then the past ones,
\* most recent first.
getMyBookings(store, userId, which, t) ==
  LET found == myBookingsQuery(store, userId, which, t)
      upcomingBookings == {i \in found : store[i].from >= t}
      pastBookings == {i \in found : store[i].from < t}
      sortedBookings ==
        SortByFrom(store, upcomingBookings, 1) \o SortByFrom(store, pastBookings, 0 - 1)
  IN [k \in 1 .. Len(sortedBookings) |->
        [bookingId |-> sortedBookings[k],
         propertyId |-> store[sortedBookings[k]].propertyId,
         checkIn |-> FormatDate(store[sortedBookings[k]].from),
         checkOut |-> FormatDate(store[sortedBookings[k]].to),
         totalPrice |-> store[sortedBookings[k]].totalPrice,
         status |-> store[sortedBookings[k]].status]]

\* get_my_bookings of executeToolCall. A booking whose property is gone makes
\* the mapping of the populated document throw.
MyBookings(p, r) ==
  /\ Free(p)
  /\ req' = [req EXCEPT ![p] = r]
  /\ session' = [session EXCEPT ![p] = <<>>]
  /\ doc' = [doc EXCEPT ![p] = NoDoc]
  /\ IF \E i \in myBookingsQuery(bookings, r.user, r.status, now) :
            bookings[i].propertyId \notin DOMAIN properties
       THEN Finish(p, "error")
       ELSE Respond(p, "listed", {}, getMyBookings(bookings, r.user, r.status, now))
  /\ UNCHANGED <<now, tz, properties, bookings, pendingBooking>>

\* GET /api/properties/[id]/bookings: the non-cancelled bookings of the
\* property that have not ended, by from.
propertyBookings(store, id, t) ==
  LET found == {i \in DOMAIN store :
                  /\ store[i].propertyId = id
                  /\ store[i].status # "cancelled"
                  /\ store[i].to >= t}
      sorted == SortByFrom(store, found, 1)
  IN [k \in 1 .. Len(sorted) |->
        [from |-> FormatDate(store[sorted[k]].from),
         to |-> FormatDate(store[sorted[k]].to),
         status |-> store[sorted[k]].status]]

PropertyBookingsGet(p, r) ==
  /\ Free(p)
  /\ req' = [req EXCEPT ![p] = r]
  /\ session' = [session EXCEPT ![p] = <<>>]
  /\ doc' = [doc EXCEPT ![p] = NoDoc]
  /\ Respond(p, "listed", {}, propertyBookings(bookings, r.propertyId, now))
  /\ UNCHANGED <<now, tz, properties, bookings, pendingBooking>>

\* ------------------------------------------------------- the booking form

FormReq(pid, checkIn, checkOut) ==
  [op |-> "form", user |-> "g1", guestId |-> "g1", propertyId |-> pid,
   from |-> checkIn, to |-> checkOut, totalPrice |-> 0, bookingId |-> 0]

\* Date.UTC(getUTCFullYear(), getUTCMonth(), getUTCDate()): the UTC midnight
\* of the day of an instant.
UTCDay(t) == (t \div HoursPerDay) * HoursPerDay

\* The condition of checkDateOverlap for one booked date (date texts, as the
\* listing gives them) and the selected check-in and check-out dates.
selectedOverlaps(booking, checkIn, checkOut) ==
  LET bookedStartUTC == UTCDay(ParseDate(booking.from))
      bookedEndUTC == UTCDay(ParseDate(booking.to))
      selectedStartUTC == UTCDay(ParseDate(checkIn))
      selectedEndUTC == UTCDay(ParseDate(checkOut))
  IN selectedStartUTC < bookedEndUTC /\ selectedEndUTC > bookedStartUTC

\* checkDateOverlap: the position of the first booked date that overlaps the
\* selected dates, 0 for null.
checkDateOverlap(bookedDates, checkIn, checkOut) ==
  IF \E k \in DOMAIN bookedDates : selectedOverlaps(bookedDates[k], checkIn, checkOut)
    THEN CHOOSE k \in DOMAIN bookedDates :
           /\ selectedOverlaps(bookedDates[k], checkIn, checkOut)
           /\ \A j \in 1 .. (k - 1) : ~ selectedOverlaps(bookedDates[j], checkIn, checkOut)
    ELSE 0

\* BookingForm: the booked dates are fetched from the listing of the property,
\* then the selected dates are checked against them.
FormCheck(p, r) ==
  /\ Free(p)
  /\ req' = [req EXCEPT ![p] = r]
  /\ session' = [session EXCEPT ![p] = <<>>]
  /\ doc' = [doc EXCEPT ![p] = NoDoc]
  /\ LET bookedDates == propertyBookings(bookings, r.propertyId, now)
         overlappingBooking == checkDateOverlap(bookedDates, r.from, r.to)
     IN IF overlappingBooking # 0
          THEN Respond(p, "conflict",
                 {[from |-> bookedDates[overlappingBooking].from,
                   to |-> bookedDates[overlappingBooking].to]}, bookedDates)
          ELSE Respond(p, "available", {}, bookedDates)
  /\ UNCHANGED <<now, tz, properties, bookings, pendingBooking>>

\* -------------------------------------------------------------- My Trips

\* sort({ createdAt: -1 }): the bookings of a set, most recently created first.
NewestFirst(ids) ==
  [k \in 1 .. Cardinality(ids) |->
     CHOOSE i \in ids : Cardinality({j \in ids : j > i}) = k - 1]

\* MyTripsPage's upcomingBookings: from > now and not cancelled.
upcomingTrips(store, userId, t) ==
  {i \in DOMAIN store :
     store[i].guestId = userId /\ store[i].from > t /\ store[i].status # "cancelled"}

\* MyTripsPage's pastBookings: to <= now or cancelled.
pastTrips(store, userId, t) ==
  {i \in DOMAIN store :
     store[i].guestId = userId /\ (store[i].to <= t \/ store[i].status = "cancelled")}

\* The page of a guest: the upcoming trips, then the past trips. A host is
\* told that hosts have no trips.
MyTripsPage(p, r) ==
  /\ Free(p)
  /\ req' = [req EXCEPT ![p] = r]
  /\ session' = [session EXCEPT ![p] = <<>>]
  /\ doc' = [doc EXCEPT ![p] = NoDoc]
  /\ IF role(r.user) = "host"
       THEN Finish(p, "no_trips")
       ELSE Respond(p, "listed", {},
              <<NewestFirst(upcomingTrips(bookings, r.user, now)),
                NewestFirst(pastTrips(bookings, r.user, now))>>)
  /\ UNCHANGED <<now, tz, properties, bookings, pendingBooking>>

\* ---------------------------------------------- PATCH /api/properties/[id]

PatchReq(u, pid, price) ==
  [op |-> "patch", user |-> u, guestId |-> u, propertyId |-> pid,
   from |-> 0, to |-> 0, totalPrice |-> 0, bookingId |-> 0, price |-> price]

\* Property.hostId: every property of the catalogue belongs to the host.
hostId(pid) == "h1"

\* Mutant: the update also reprices the stored bookings of the property.
PropertyPatchReprices(p, r) ==
  /\ Free(p)
  /\ req' = [req EXCEPT ![p] = r]
  /\ session' = [session EXCEPT ![p] = <<>>]
  /\ doc' = [doc EXCEPT ![p] = NoDoc]
  /\ IF r.user = NoUser \/ role(r.user) # "host"
        \/ r.propertyId \notin DOMAIN properties \/ hostId(r.propertyId) # r.user
       THEN Finish(p, "forbidden") /\ UNCHANGED <<properties, bookings>>
       ELSE /\ Finish(p, "updated")
            /\ properties' = [properties EXCEPT ![r.propertyId] = r.price]
            /\ bookings' =
                 [i \in DOMAIN bookings |->
                    IF bookings[i].propertyId = r.propertyId
                      THEN [bookings[i] EXCEPT !.totalPrice =
                              calculateNights(bookings[i].from, bookings[i].to) * r.price]
                      ELSE bookings[i]]
  /\ UNCHANGED <<now, tz, pendingBooking>>

\* The host's update of a property: findByIdAndUpdate writes the new price.
PropertyPatch(p, r) ==
  /\ Free(p)
  /\ req' = [req EXCEPT ![p] = r]
  /\ session' = [session EXCEPT ![p] = <<>>]
  /\ doc' = [doc EXCEPT ![p] = NoDoc]
  /\ IF r.user = NoUser
       THEN Finish(p, "unauthorized") /\ UNCHANGED properties
     ELSE IF role(r.user) # "host"
       THEN Finish(p, "forbidden") /\ UNCHANGED properties
     ELSE IF r.propertyId \notin DOMAIN properties
       THEN Finish(p, "property_not_found") /\ UNCHANGED properties
     ELSE IF hostId(r.propertyId) # r.user
       THEN Finish(p, "forbidden") /\ UNCHANGED properties
     ELSE /\ Finish(p, "updated")
          /\ properties' = [properties EXCEPT ![r.propertyId] = r.price]
  /\ UNCHANGED <<now, tz, bookings, pendingBooking>>

\* ------------------------------------------------ the host's properties

\* The ids the store gives to properties created later.
NewPropertyIds == {"p3"}

CreateReq(u, host, price) ==
  [op |-> "create", user |-> u, guestId |-> u, propertyId |-> "none",
   from |-> 0, to |-> 0, totalPrice |-> 0, bookingId |-> 0, price |-> price,
   hostId |-> host]

\* POST /api/properties: a host creates a property in their own name; the
\* store gives it an id no property and no booking has used.
PropertyCreate(p, r) ==
  /\ Free(p)
  /\ req' = [req EXCEPT ![p] = r]
  /\ session' = [session EXCEPT ![p] = <<>>]
  /\ doc' = [doc EXCEPT ![p] = NoDoc]
  /\ IF r.user = NoUser
       THEN Finish(p, "unauthorized") /\ UNCHANGED properties
     ELSE IF role(r.user) # "host"
       THEN Finish(p, "forbidden") /\ UNCHANGED properties
     ELSE IF r.user # r.hostId
       THEN Finish(p, "unauthorized") /\ UNCHANGED properties
     ELSE /\ Finish(p, "created")
          /\ \E id \in NewPropertyIds :
               /\ id \notin DOMAIN properties
               /\ \A i \in DOMAIN bookings : bookings[i].propertyId # id
               /\ properties' = [i \in DOMAIN properties \cup {id} |->
                                   IF i = id THEN r.price ELSE properties[i]]
  /\ UNCHANGED <<now, tz, bookings, pendingBooking>>

DeleteReq(u, pid) ==
  [op |-> "delete", user |-> u, guestId |-> u, propertyId |-> pid,
   from |-> 0, to |-> 0, totalPrice |-> 0, bookingId |-> 0]

\* DELETE /api/properties/[id]: the host's own property is deleted with
\* Property.findByIdAndDelete; the bookings are not looked at.
PropertyDelete(p, r) ==
  /\ Free(p)
  /\ req' = [req EXCEPT ![p] = r]
  /\ session' = [session EXCEPT ![p] = <<>>]
  /\ doc' = [doc EXCEPT ![p] = NoDoc]
  /\ IF r.user = NoUser
       THEN Finish(p, "unauthorized") /\ UNCHANGED properties
     ELSE IF role(r.user) # "host"
       THEN Finish(p, "forbidden") /\ UNCHANGED properties
     ELSE IF r.propertyId \notin DOMAIN properties
       THEN Finish(p, "property_not_found") /\ UNCHANGED properties
     ELSE IF hostId(r.propertyId) # r.user
       THEN Finish(p, "forbidden") /\ UNCHANGED properties
     ELSE /\ Finish(p, "deleted")
          /\ properties' = [i \in DOMAIN properties \ {r.propertyId} |-> properties[i]]
  /\ UNCHANGED <<now, tz, bookings, pendingBooking>>

\* ------------------------------------------------------------ the requests

\* The price the booking form computes: nights * pricePerNight.
FormPrice(pid, f, t) ==
  IF pid \in PropertyIds
    THEN calculateTotalPrice(NightlyPrice, ParseDate(f), ParseDate(t))
    ELSE 0

\* Requests of concurrent clients: authorised guests, well-ordered stays that
\* overlap or coincide.
ConcIntervals == {<<1, 3>>, <<2, 3>>}

ConcRequests ==
  {PostReq(u, u, pid, i[1], i[2], FormPrice(pid, i[1], i[2])) :
     u \in Guests, pid \in PropertyIds, i \in ConcIntervals}
  \cup {AgentReq("confirm", u, pid, i[1], i[2]) :
     u \in Guests, pid \in PropertyIds, i \in ConcIntervals}
  \cup {CancelReq(u, id) : u \in Guests, id \in 1 .. MaxBookings}

\* Request handlers run concurrently, interleaved at their awaits.
Next ==
  \E p \in Procs :
    \/ \E r \in ConcRequests :
         \/ r.op = "post" /\ PostBegin(p, r)
         \/ r.op = "confirm" /\ ConfirmBegin(p, r)
         \/ r.op = "cancel" /\ CancelBegin(p, r)
    \/ PostRead(p)
    \/ PostSave(p)
    \/ PostCommit(p)
    \/ ConfirmCheck(p)
    \/ ConfirmSave(p)
    \/ ConfirmInsert(p)
    \/ CancelSave(p)

Spec == Init /\ [][Next]_vars

\* ------------------------------------------------- one request at a time

\* The handler of the specifications that run one request at a time.
Solo == "r1"

\* Requests on one property and on a missing one, by either guest.
SeqProperties == {"p1", GhostProperty}

\* Every well-ordered stay, an empty one and an inverted one.
Stays ==
  {i \in Days \X Days : i[1] < i[2]} \cup {<<MaxDay, MaxDay>>, <<MaxDay, MaxDay - 1>>}

SeqRequests ==
  {PostReq(u, u, pid, i[1], i[2], FormPrice(pid, i[1], i[2])) :
     u \in Guests, pid \in SeqProperties, i \in Stays}
  \cup {AgentReq("confirm", u, pid, i[1], i[2]) :
     u \in Guests, pid \in SeqProperties, i \in Stays}
  \cup {CancelReq(u, id) : u \in Guests, id \in 1 .. MaxBookings}
  \cup {AvailReq(pid, i[1], i[2]) : pid \in SeqProperties, i \in Stays}

\* One handler: each request runs to its end before the next starts.
NextSeq ==
  \/ \E r \in SeqRequests :
       \/ r.op = "post" /\ PostBegin(Solo, r)
       \/ r.op = "confirm" /\ ConfirmBegin(Solo, r)
       \/ r.op = "cancel" /\ CancelBegin(Solo, r)
       \/ r.op = "availability" /\ AvailabilityGet(Solo, r)
  \/ PostRead(Solo)
  \/ PostSave(Solo)
  \/ PostCommit(Solo)
  \/ ConfirmCheck(Solo)
  \/ ConfirmSave(Solo)
  \/ ConfirmInsert(Solo)
  \/ CancelSave(Solo)

SpecSeq == Init /\ [][NextSeq]_vars

\* ------------------------------------------------- the quote, then the commit

\* Stays of the agent's conversations: from day 1 on, one in the past, an
\* empty one and an inverted one.
QuoteStays ==
  {i \in Days \X Days : 1 <= i[1] /\ i[1] < i[2]}
  \cup {<<0, 1>>, <<MaxDay, MaxDay>>, <<MaxDay, MaxDay - 1>>}

QuoteRequests ==
  {AgentReq(kind, u, pid, i[1], i[2]) :
     kind \in {"prepare", "confirm"}, u \in Guests, pid \in SeqProperties,
     i \in QuoteStays}

\* The tool calls of the guests' conversations, one at a time.
NextQuote ==
  \/ \E r \in QuoteRequests :
       \/ r.op = "prepare" /\ PrepareBegin(Solo, r)
       \/ r.op = "confirm" /\ ConfirmBegin(Solo, r)
  \/ PrepareCheck(Solo)
  \/ ConfirmCheck(Solo)
  \/ ConfirmSave(Solo)
  \/ ConfirmInsert(Solo)

SpecQuote == Init /\ [][NextQuote]_vars

\* ------------------------------------------------------- the passing of time

\* The process outside this program that marks a booking completed once its
\* stay is over.
Complete(i) ==
  /\ i \in DOMAIN bookings
  /\ bookings[i].status = "confirmed"
  /\ bookings[i].to <= now
  /\ bookings' = [bookings EXCEPT ![i].status = "completed"]
  /\ UNCHANGED <<session, now, tz, properties, pc, req, doc, result,
                 conflictingBookings, results, pendingBooking>>

\* The server may run in any of the zones.
InitTime ==
  /\ now = StartOfTime
  /\ tz \in TzOffsets
  /\ properties = [i \in PropertyIds |-> NightlyPrice]
  /\ bookings = <<>>
  /\ pc = [p \in Procs |-> "idle"]
  /\ req = [p \in Procs |-> NoReq]
  /\ doc = [p \in Procs |-> NoDoc]
  /\ result = [p \in Procs |-> "none"]
  /\ conflictingBookings = [p \in Procs |-> {}]
  /\ results = [p \in Procs |-> <<>>]
  /\ session = [p \in Procs |-> <<>>]
  /\ pendingBooking = [u \in Users |-> NoQuote]

\* One guest's requests; the body of a POST carries the form's price or 0.
TimeRequests ==
  {PostReq("g1", "g1", "p1", i[1], i[2], FormPrice("p1", i[1], i[2])) : i \in Stays}
  \cup {PostReq("g1", "g1", "p1", i[1], i[2], 0) : i \in Stays}
  \cup {AgentReq(kind, "g1", "p1", i[1], i[2]) :
     kind \in {"prepare", "confirm"}, i \in Stays}
  \cup {AvailReq("p1", i[1], i[2]) : i \in Stays}

\* One request at a time, while the clock advances and stays end.
NextTime ==
  \/ Tick
  \/ \E i \in 1 .. MaxBookings : Complete(i)
  \/ \E r \in TimeRequests :
       \/ r.op = "post" /\ PostBegin(Solo, r)
       \/ r.op = "confirm" /\ ConfirmBegin(Solo, r)
       \/ r.op = "prepare" /\ PrepareBegin(Solo, r)
       \/ r.op = "availability" /\ AvailabilityGet(Solo, r)
  \/ PostRead(Solo)
  \/ PostSave(Solo)
  \/ PostCommit(Solo)
  \/ ConfirmCheck(Solo)
  \/ ConfirmSave(Solo)
  \/ ConfirmInsert(Solo)
  \/ PrepareCheck(Solo)

SpecTime == InitTime /\ [][NextTime]_vars

\* ------------------------------------------------------ the length of a stay

\* Stays of one night, of no night, of exactly the longest duration and of one
\* day more, all from day 1; a stay that has begun; an inverted one.
SpanStays ==
  {<<1, 2>>, <<1, 1>>, <<1, 1 + MaxDurationDays>>, <<1, 2 + MaxDurationDays>>,
   <<0, 1>>, <<2, 1>>}

\* POST requests the route refuses to serve: no signed-in user, a host, and
\* a guest booking in another guest's name.
Intruders ==
  {PostReq(NoUser, "g1", "p1", 1, 2, FormPrice("p1", 1, 2)),
   PostReq("h1", "h1", "p1", 1, 2, FormPrice("p1", 1, 2)),
   PostReq("g1", "g2", "p1", 1, 2, FormPrice("p1", 1, 2))}

\* One guest's requests by every route, on a stored property and a missing one.
SpanRequests ==
  {PostReq("g1", "g1", pid, i[1], i[2], FormPrice(pid, i[1], i[2])) :
     pid \in SeqProperties, i \in SpanStays}
  \cup Intruders
  \cup {AgentReq(kind, "g1", pid, i[1], i[2]) :
     kind \in {"prepare", "confirm"}, pid \in SeqProperties, i \in SpanStays}
  \cup {AvailReq(pid, i[1], i[2]) : pid \in SeqProperties, i \in SpanStays}
  \cup {CancelReq("g1", id) : id \in 1 .. MaxBookings}

\* One request at a time.
NextSpan ==
  \/ \E r \in SpanRequests :
       \/ r.op = "post" /\ PostBegin(Solo, r)
       \/ r.op = "confirm" /\ ConfirmBegin(Solo, r)
       \/ r.op = "prepare" /\ PrepareBegin(Solo, r)
       \/ r.op = "availability" /\ AvailabilityGet(Solo, r)
       \/ r.op = "cancel" /\ CancelBegin(Solo, r)
  \/ PostRead(Solo)
  \/ PostSave(Solo)
  \/ PostCommit(Solo)
  \/ ConfirmCheck(Solo)
  \/ ConfirmSave(Solo)
  \/ ConfirmInsert(Solo)
  \/ PrepareCheck(Solo)
  \/ CancelSave(Solo)

SpecSpan == Init /\ [][NextSpan]_vars

\* ------------------------------------------------- the availability checks

\* Stays before, at and after the clock's day, and an inverted one.
FrameStays == {<<0, 1>>, <<1, 2>>, <<2, 3>>, <<1, 3>>, <<2, 1>>}

\* The dateRanges arrays of the bulk check: none, one or two ranges.
FrameRanges ==
  {<<>>} \cup {<<i>> : i \in FrameStays} \cup {<<i, j>> : i, j \in FrameStays}

\* One guest's creations and cancellations, and anybody's single and bulk
\* availability checks.
BulkRequests ==
  {AgentReq("confirm", "g1", "p1", i[1], i[2]) : i \in FrameStays}
  \cup {CancelReq("g1", id) : id \in 1 .. MaxBookings}
  \cup {AvailReq(pid, i[1], i[2]) : pid \in SeqProperties, i \in FrameStays}
  \cup {BulkReq(pid, ranges) : pid \in SeqProperties, ranges \in FrameRanges}

\* One request at a time.
NextBulk ==
  \/ \E r \in BulkRequests :
       \/ r.op = "confirm" /\ ConfirmBegin(Solo, r)
       \/ r.op = "cancel" /\ CancelBegin(Solo, r)
       \/ r.op = "availability" /\ AvailabilityGet(Solo, r)
       \/ r.op = "bulk" /\ AvailabilityPost(Solo, r)
  \/ ConfirmCheck(Solo)
  \/ ConfirmSave(Solo)
  \/ ConfirmInsert(Solo)
  \/ CancelSave(Solo)

SpecBulk == Init /\ [][NextBulk]_vars

\* ------------------------------------------- reads, writes and the host

\* The prices the host sets.
Prices == {NightlyPrice, NightlyPrice + 1}

\* The bulk checks of one stay, of an inverted one and of both.
ShortRanges == {<<>>, <<<<1, 2>>>>, <<<<2, 1>>, <<1, 2>>>>}

\* One guest's creations, cancellations and reads, anybody's availability
\* checks and listings, and the updates of the host and of others.
FrameRequests ==
  {PostReq("g1", "g1", "p1", i[1], i[2], FormPrice("p1", i[1], i[2])) :
     i \in {<<1, 2>>, <<2, 3>>}}
  \cup {AgentReq("confirm", "g1", "p1", i[1], i[2]) : i \in {<<0, 1>>, <<1, 2>>, <<1, 3>>}}
  \cup {AgentReq("prepare", "g1", pid, i[1], i[2]) :
     pid \in SeqProperties, i \in {<<1, 2>>, <<2, 1>>}}
  \cup {CancelReq("g1", id) : id \in 1 .. MaxBookings}
  \cup {AvailReq(pid, i[1], i[2]) : pid \in SeqProperties, i \in {<<1, 2>>, <<2, 1>>}}
  \cup {BulkReq(pid, ranges) : pid \in SeqProperties, ranges \in ShortRanges}
  \cup {ListReq("mybookings", "g1", "none", which) :
     which \in {"default", "upcoming", "past", "all"}}
  \cup {ListReq("listing", NoUser, pid, "none") : pid \in SeqProperties}
  \cup {PatchReq("h1", pid, price) : pid \in SeqProperties, price \in Prices}
  \cup {PatchReq(u, "p1", NightlyPrice + 1) : u \in {"g1", NoUser}}

\* One request at a time.
NextFrame ==
  \/ \E r \in FrameRequests :
       \/ r.op = "post" /\ PostBegin(Solo, r)
       \/ r.op = "confirm" /\ ConfirmBegin(Solo, r)
       \/ r.op = "prepare" /\ PrepareBegin(Solo, r)
       \/ r.op = "cancel" /\ CancelBegin(Solo, r)
       \/ r.op = "availability" /\ AvailabilityGet(Solo, r)
       \/ r.op = "bulk" /\ AvailabilityPost(Solo, r)
       \/ r.op = "mybookings" /\ MyBookings(Solo, r)
       \/ r.op = "listing" /\ PropertyBookingsGet(Solo, r)
       \/ r.op = "patch" /\ PropertyPatch(Solo, r)
  \/ PostRead(Solo)
  \/ PostSave(Solo)
  \/ PostCommit(Solo)
  \/ ConfirmCheck(Solo)
  \/ ConfirmSave(Solo)
  \/ ConfirmInsert(Solo)
  \/ PrepareCheck(Solo)
  \/ CancelSave(Solo)

SpecFrame == Init /\ [][NextFrame]_vars

\* ------------------------------------------------------- two properties

\* One guest's requests on either property: every route for one stay, and
\* confirmBooking for a stay that overlaps it.
CrossRequests ==
  {PostReq("g1", "g1", pid, 1, 3, FormPrice(pid, 1, 3)) : pid \in PropertyIds}
  \cup {AgentReq("confirm", "g1", pid, i[1], i[2]) :
     pid \in PropertyIds, i \in ConcIntervals}
  \cup {AgentReq("prepare", "g1", pid, 1, 3) : pid \in PropertyIds}
  \cup {AvailReq(pid, 1, 3) : pid \in PropertyIds}
  \cup {CancelReq("g1", id) : id \in 1 .. MaxBookings}

\* Request handlers run concurrently, interleaved at their awaits.
NextCross ==
  \E p \in Procs :
    \/ \E r \in CrossRequests :
         \/ r.op = "post" /\ PostBegin(p, r)
         \/ r.op = "confirm" /\ ConfirmBegin(p, r)
         \/ r.op = "prepare" /\ PrepareBegin(p, r)
         \/ r.op = "availability" /\ AvailabilityGet(p, r)
         \/ r.op = "cancel" /\ CancelBegin(p, r)
    \/ PostRead(p)
    \/ PostSave(p)
    \/ PostCommit(p)
    \/ ConfirmCheck(p)
    \/ ConfirmSave(p)
    \/ ConfirmInsert(p)
    \/ PrepareCheck(p)
    \/ CancelSave(p)

SpecCross == Init /\ [][NextCross]_vars

\* ------------------------------------------- the transaction of a POST

\* POST requests of two guests for overlapping stays, requests the route
\* refuses (intruders, a missing property, an inverted stay, a stay that has
\* begun) and requests hit by a fault before the transaction starts.
FaultRequests ==
  {PostReq(u, u, "p1", i[1], i[2], FormPrice("p1", i[1], i[2])) :
     u \in Guests, i \in ConcIntervals}
  \cup Intruders
  \cup {PostReq("g1", "g1", GhostProperty, 1, 3, 0)}
  \cup {PostReq("g1", "g1", "p1", i[1], i[2], FormPrice("p1", i[1], i[2])) :
     i \in {<<2, 1>>, <<0, 1>>}}
  \cup {PostFault(PostReq("g1", "g1", "p1", 1, 3, FormPrice("p1", 1, 3)), fault) :
     fault \in Faults}

\* Request handlers run concurrently, interleaved at their awaits.
NextPost ==
  \E p \in Procs :
    \/ \E r \in FaultRequests : PostBegin(p, r)
    \/ PostRead(p)
    \/ PostSave(p)
    \/ PostCommit(p)

SpecPost == Init /\ [][NextPost]_vars

\* ------------------------------------------------- the overlap formulas

\* The times of day (UTC) a date-time text of a POST names.
TimesOfDay == {0, HoursPerDay \div 2}

\* Whole-day stays from the clock's day on.
OverlapStays == {i \in (1 .. MaxDay) \X (1 .. MaxDay) : i[1] < i[2]}

\* One guest's POSTs with dates and with date-times, cancellations, and the
\* three checks of a whole-day stay: GET /api/availability, prepareBooking
\* and the booking form.
OverlapRequests ==
  {PostAt(PostReq("g1", "g1", "p1", i[1], i[2], FormPrice("p1", i[1], i[2])), h[1], h[2]) :
     i \in OverlapStays, h \in TimesOfDay \X TimesOfDay}
  \cup {CancelReq("g1", id) : id \in 1 .. MaxBookings}
  \cup {AvailReq("p1", i[1], i[2]) : i \in OverlapStays}
  \cup {AgentReq("prepare", "g1", "p1", i[1], i[2]) : i \in OverlapStays}
  \cup {FormReq("p1", i[1], i[2]) : i \in OverlapStays}

\* One request at a time.
NextOverlap ==
  \/ \E r \in OverlapRequests :
       \/ r.op = "post" /\ PostBegin(Solo, r)
       \/ r.op = "cancel" /\ CancelBegin(Solo, r)
       \/ r.op = "availability" /\ AvailabilityGet(Solo, r)
       \/ r.op = "prepare" /\ PrepareBegin(Solo, r)
       \/ r.op = "form" /\ FormCheck(Solo, r)
  \/ PostRead(Solo)
  \/ PostSave(Solo)
  \/ PostCommit(Solo)
  \/ CancelSave(Solo)
  \/ PrepareCheck(Solo)

SpecOverlap == Init /\ [][NextOverlap]_vars

\* ------------------------------------------------------- cancellations

\* The guests' confirmBooking calls for overlapping stays at one property,
\* and their cancellations.
CancelRequests ==
  {AgentReq("confirm", u, "p1", i[1], i[2]) : u \in Guests, i \in ConcIntervals}
  \cup {CancelReq(u, id) : u \in Guests, id \in 1 .. MaxBookings}

\* Request handlers run concurrently, interleaved at their awaits.
NextCancel ==
  \E p \in Procs :
    \/ \E r \in CancelRequests :
         \/ r.op = "confirm" /\ ConfirmBegin(p, r)
         \/ r.op = "cancel" /\ CancelBegin(p, r)
    \/ ConfirmCheck(p)
    \/ ConfirmSave(p)
    \/ ConfirmInsert(p)
    \/ CancelSave(p)

SpecCancel == Init /\ [][NextCancel]_vars

\* ------------------------------------------------------------ the holder

\* POSTs of the guests in their own name and of the intruders, confirm_booking
\* tool calls of every user with every guestId in the arguments, and the
\* guests' cancellations.
HolderRequests ==
  {PostReq(u, u, "p1", i[1], i[2], FormPrice("p1", i[1], i[2])) :
     u \in Guests, i \in {<<1, 2>>, <<2, 3>>}}
  \cup Intruders
  \cup {ToolCall(u, g, "p1", i[1], i[2]) : u \in Users, g \in Users, i \in {<<1, 2>>, <<2, 3>>}}
  \cup {CancelReq(u, id) : u \in Guests, id \in 1 .. MaxBookings}

\* One request at a time.
NextHolder ==
  \/ \E r \in HolderRequests :
       \/ r.op = "post" /\ PostBegin(Solo, r)
       \/ r.op = "confirm" /\ ConfirmBegin(Solo, confirmParams(r))
       \/ r.op = "cancel" /\ CancelBegin(Solo, r)
  \/ PostRead(Solo)
  \/ PostSave(Solo)
  \/ PostCommit(Solo)
  \/ ConfirmCheck(Solo)
  \/ ConfirmSave(Solo)
  \/ ConfirmInsert(Solo)
  \/ CancelSave(Solo)

SpecHolder == Init /\ [][NextHolder]_vars

\* ------------------------------------------------ the trips, as time passes

\* One guest's bookings through the agent, cancellations, the listings of
\* getMyBookings with every filter and the My Trips page of the guest and of
\* the host.
TripsRequests ==
  {AgentReq("confirm", "g1", "p1", i[1], i[2]) : i \in {<<1, 2>>, <<2, 3>>, <<1, 3>>}}
  \cup {CancelReq("g1", id) : id \in 1 .. MaxBookings}
  \cup {ListReq("mybookings", "g1", "none", which) :
     which \in {"default", "upcoming", "past", "all"}}
  \cup {ListReq("mytrips", u, "none", "none") : u \in {"g1", "h1"}}

\* One request at a time, while the clock advances.
NextTrips ==
  \/ Tick
  \/ \E r \in TripsRequests :
       \/ r.op = "confirm" /\ ConfirmBegin(Solo, r)
       \/ r.op = "cancel" /\ CancelBegin(Solo, r)
       \/ r.op = "mybookings" /\ MyBookings(Solo, r)
       \/ r.op = "mytrips" /\ MyTripsPage(Solo, r)
  \/ ConfirmCheck(Solo)
  \/ ConfirmSave(Solo)
  \/ ConfirmInsert(Solo)
  \/ CancelSave(Solo)

SpecTrips == Init /\ [][NextTrips]_vars

\* ------------------------------------------ properties come and go

\* The host's creations and deletions of properties (and those of others,
\* which are refused), one guest's bookings on an old and on a new property,
\* cancellations and listings.
CatalogueRequests ==
  {CreateReq(u, "h1", NightlyPrice) : u \in {"h1", "g1", NoUser}}
  \cup {CreateReq("h1", "g1", NightlyPrice)}
  \cup {DeleteReq(u, "p1") : u \in {"h1", "g1", NoUser}}
  \cup {DeleteReq("h1", pid) : pid \in NewPropertyIds \cup {GhostProperty}}
  \cup {AgentReq("confirm", "g1", pid, 1, 2) : pid \in {"p1"} \cup NewPropertyIds}
  \cup {PostReq("g1", "g1", "p1", 2, 3, FormPrice("p1", 2, 3))}
  \cup {CancelReq("g1", id) : id \in 1 .. MaxBookings}
  \cup {ListReq("mybookings", "g1", "none", which) : which \in {"default", "all"}}

\* One request at a time.
NextCatalogue ==
  \/ \E r \in CatalogueRequests :
       \/ r.op = "create" /\ PropertyCreate(Solo, r)
       \/ r.op = "delete" /\ PropertyDelete(Solo, r)
       \/ r.op = "confirm" /\ ConfirmBegin(Solo, r)
       \/ r.op = "post" /\ PostBegin(Solo, r)
       \/ r.op = "cancel" /\ CancelBegin(Solo, r)
       \/ r.op = "mybookings" /\ MyBookings(Solo, r)
  \/ PostRead(Solo)
  \/ PostSave(Solo)
  \/ PostCommit(Solo)
  \/ ConfirmCheck(Solo)
  \/ ConfirmSave(Solo)
  \/ ConfirmInsert(Solo)
  \/ CancelSave(Solo)

SpecCatalogue == Init /\ [][NextCatalogue]_vars

\* ================================================================ claims

\* A booking that holds its dates.
Active(b) == b.status \in {"pending", "confirmed"}

\* A and B overlap when A.from < B.to and A.to > B.from.
Overlap(aFrom, aTo, bFrom, bTo) == aFrom < bTo /\ aTo > bFrom

\* The stored bookings a creation request would have written.
WrittenBy(r) ==
  {i \in DOMAIN bookings :
     /\ bookings[i].propertyId = r.propertyId
     /\ bookings[i].guestId = r.guestId
     /\ bookings[i].from = ParseDate(r.from)
     /\ bookings[i].to = ParseDate(r.to)
     /\ bookings[i].status = "confirmed"}

\* Two handlers that have both returned from a creation by the same route,
\* for overlapping stays at one property.
Rivals(p, q, route) ==
  /\ p # q
  /\ pc[p] = "done" /\ pc[q] = "done"
  /\ req[p].op = route /\ req[q].op = route
  /\ req[p].propertyId = req[q].propertyId
  /\ Overlap(ParseDate(req[p].from), ParseDate(req[p].to),
             ParseDate(req[q].from), ParseDate(req[q].to))

\* C1: no two distinct stored bookings of one property that are both pending
\* or confirmed have overlapping intervals, under any interleaving of
\* creations and cancellations.
C1_NoDoubleBooking ==
  \A i, j \in DOMAIN bookings :
    (/\ i # j
     /\ bookings[i].propertyId = bookings[j].propertyId
     /\ Active(bookings[i]) /\ Active(bookings[j]))
    => ~ Overlap(bookings[i].from, bookings[i].to, bookings[j].from, bookings[j].to)

\* C2: of the POST /api/booking requests for mutually overlapping stays at
\* one property, one commits and the others get the conflict answer: two of
\* them never both answer "created" with both bookings stored.
C2_OnePostCommits ==
  \A p, q \in Procs :
    (/\ Rivals(p, q, "post")
     /\ result[p] = "created" /\ result[q] = "created")
    => Cardinality(WrittenBy(req[p]) \cup WrittenBy(req[q])) <= 1

\* C3: of two confirmBooking calls for the same property and the same
\* [from, to), one succeeds and the other fails with the conflict error, and
\* one booking exists for that interval.
C3_OneConfirmSucceeds ==
  \A p, q \in Procs :
    (/\ Rivals(p, q, "confirm")
     /\ req[p].from = req[q].from /\ req[p].to = req[q].to
     /\ result[p] = "created" /\ result[q] = "created")
    => Cardinality({i \in DOMAIN bookings :
                      /\ bookings[i].propertyId = req[p].propertyId
                      /\ bookings[i].from = ParseDate(req[p].from)
                      /\ bookings[i].to = ParseDate(req[p].to)
                      /\ Active(bookings[i])}) <= 1

\* A handler returns in this step (req' holds the request it answers).
Returns(p) ==
  /\ pc'[p] = "done"
  /\ pc[p] # "done" \/ req'[p] # req[p] \/ result'[p] # result[p]

\* The request is a creation, by either route.
Creation(r) == r.op \in {"post", "confirm"}

\* The request names a stored property and a well-ordered stay that does not
\* start before the clock's instant.
ValidRequest(r) ==
  /\ r.propertyId \in DOMAIN properties
  /\ r.from < r.to
  /\ ParseDate(r.from) >= now

\* The stored bookings, other than cancelled ones, that overlap the request.
Blocking(r) ==
  {i \in DOMAIN bookings :
     /\ bookings[i].propertyId = r.propertyId
     /\ bookings[i].status # "cancelled"
     /\ Overlap(bookings[i].from, bookings[i].to, ParseDate(r.from), ParseDate(r.to))}

\* The store after the request's booking is inserted: the old bookings, then
\* one with the requested property, holder and interval.
Inserted(r) ==
  /\ Len(bookings') = Len(bookings) + 1
  /\ SubSeq(bookings', 1, Len(bookings)) = bookings
  /\ bookings'[Len(bookings')].propertyId = r.propertyId
  /\ bookings'[Len(bookings')].guestId = r.guestId
  /\ bookings'[Len(bookings')].from = ParseDate(r.from)
  /\ bookings'[Len(bookings')].to = ParseDate(r.to)

\* C4: run one at a time, a creation request with valid dates for a stored
\* property answers conflict exactly when a stored non-cancelled booking of
\* the property overlaps the stay, and leaves the store as it was; otherwise
\* it inserts exactly one booking with the requested property, holder and
\* interval.
C4_ConflictIffOverlap ==
  [][\A p \in Procs :
       (Returns(p) /\ Creation(req'[p]) /\ ValidRequest(req'[p]))
       => IF Blocking(req'[p]) # {}
            THEN result'[p] = "conflict" /\ bookings' = bookings
            ELSE result'[p] = "created" /\ Inserted(req'[p])]_vars

\* C4 witness: a POST answered conflict because of a stored confirmed booking.
C4_Witness ==
  /\ pc[Solo] = "done" /\ req[Solo].op = "post" /\ result[Solo] = "conflict"
  /\ ValidRequest(req[Solo])
  /\ Blocking(req[Solo]) # {}

\* An active booking of the request's property ends where the stay starts or
\* starts where it ends.
Adjacent(r) ==
  \E i \in DOMAIN bookings :
    /\ bookings[i].propertyId = r.propertyId
    /\ Active(bookings[i])
    /\ bookings[i].to = ParseDate(r.from) \/ bookings[i].from = ParseDate(r.to)

\* C5: intervals are half-open. A valid request that touches an active
\* booking at an end point and overlaps no booking is not answered conflict
\* by any check (POST's query, checkPropertyAvailability, checkAvailability,
\* the pre-save hook): the availability check answers available and a
\* creation inserts the adjacent booking.
C5_AdjacentIsFree ==
  [][\A p \in Procs :
       (/\ Returns(p)
        /\ req'[p].op \in {"post", "confirm", "availability"}
        /\ ValidRequest(req'[p])
        /\ Adjacent(req'[p])
        /\ Blocking(req'[p]) = {})
       => IF Creation(req'[p])
            THEN result'[p] = "created" /\ Inserted(req'[p])
            ELSE result'[p] = "available"]_vars

\* C5 witness: two confirmed bookings of one property, the second starting on
\* the day the first ends, the second just created.
C5_Witness ==
  /\ pc[Solo] = "done" /\ Creation(req[Solo]) /\ result[Solo] = "created"
  /\ Len(bookings) = 2
  /\ bookings[1].propertyId = bookings[2].propertyId
  /\ Active(bookings[1]) /\ Active(bookings[2])
  /\ bookings[1].to = bookings[2].from \/ bookings[2].to = bookings[1].from

\* The stored bookings with the request's property and interval.
SameStay(r) ==
  {i \in DOMAIN bookings :
     /\ bookings[i].propertyId = r.propertyId
     /\ bookings[i].from = ParseDate(r.from)
     /\ bookings[i].to = ParseDate(r.to)}

\* C6: cancellation frees capacity. While a booking A holds an interval, a
\* creation for the same interval answers conflict; cancelBooking by A's
\* holder stores A as cancelled; and once A is cancelled a creation for the
\* same interval succeeds, provided no other active booking overlaps it.
C6_CancelFrees ==
  [][\A p \in Procs :
       /\ (Returns(p) /\ Creation(req'[p]) /\ ValidRequest(req'[p]))
          => \A i \in SameStay(req'[p]) :
               IF Active(bookings[i])
                 THEN result'[p] = "conflict" /\ bookings' = bookings
                 ELSE (Blocking(req'[p]) = {})
                      => (result'[p] = "created" /\ Inserted(req'[p]))
       /\ (Returns(p) /\ req'[p].op = "cancel" /\ result'[p] = "cancelled")
          => /\ bookings[req'[p].bookingId].guestId = req'[p].user
             /\ bookings'[req'[p].bookingId].status = "cancelled"]_vars

\* C6 witness: booking 1 is cancelled and booking 2, just created by another
\* guest, holds the same interval of the same property.
C6_Witness ==
  /\ pc[Solo] = "done" /\ Creation(req[Solo]) /\ result[Solo] = "created"
  /\ Len(bookings) = 2
  /\ bookings[1].status = "cancelled" /\ bookings[2].status = "confirmed"
  /\ bookings[1].propertyId = bookings[2].propertyId
  /\ bookings[1].from = bookings[2].from /\ bookings[1].to = bookings[2].to
  /\ bookings[1].guestId # bookings[2].guestId

\* The user's conversation holds a quote for exactly the request's property
\* and dates.
Quoted(r) ==
  /\ pendingBooking[r.user].propertyId = r.propertyId
  /\ pendingBooking[r.user].checkIn = r.from
  /\ pendingBooking[r.user].checkOut = r.to

\* Another holder's active booking has the request's property and interval.
TakenByOther(r) ==
  \E i \in SameStay(r) : Active(bookings[i]) /\ bookings[i].guestId # r.guestId

\* C8: a quote does not reserve. When a holder's conversation holds a quote
\* for a stay and another holder has since committed the same stay at the
\* same property, the first holder's confirmBooking for it fails with the
\* conflict error and stores no booking.
C8_QuoteDoesNotReserve ==
  [][\A p \in Procs :
       (/\ Returns(p)
        /\ req'[p].op = "confirm"
        /\ Quoted(req'[p])
        /\ TakenByOther(req'[p]))
       => result'[p] = "conflict" /\ bookings' = bookings]_vars

\* C8 witness: the confirm of a quoted stay has just failed with conflict;
\* the stay is held by the other guest and the quote is still pending.
C8_Witness ==
  /\ pc[Solo] = "done" /\ req[Solo].op = "confirm" /\ result[Solo] = "conflict"
  /\ Quoted(req[Solo])
  /\ TakenByOther(req[Solo])
  /\ Len(bookings) = 1

\* The stored bookings of the request's property, with one of the given
\* statuses, that overlap the requested stay.
Overlapping(r, statuses) ==
  {i \in DOMAIN bookings :
     /\ bookings[i].propertyId = r.propertyId
     /\ bookings[i].status \in statuses
     /\ Overlap(bookings[i].from, bookings[i].to, ParseDate(r.from), ParseDate(r.to))}

\* C7: only pending and confirmed bookings take part in conflict checks. A
\* creation request, an availability check or a quote for a well-ordered stay
\* that overlaps only cancelled or completed bookings of the property is not
\* answered conflict.
C7_OnlyActiveBlocks ==
  [][\A p \in Procs :
       (/\ Returns(p)
        /\ req'[p].op \in {"post", "confirm", "prepare", "availability"}
        /\ req'[p].from < req'[p].to
        /\ Overlapping(req'[p], {"cancelled", "completed"}) # {}
        /\ Overlapping(req'[p], {"pending", "confirmed"}) = {})
       => result'[p] # "conflict"]_vars

\* The number of days from one midnight to another.
Nights(from, to) == (to - from) \div HoursPerDay

\* C9: every booking is stored with totalPrice = nights * the property's
\* nightly price at the time it is created, whichever route creates it.
C9_TotalPriceIsDerived ==
  [][Len(bookings') > Len(bookings)
     => bookings'[Len(bookings')].totalPrice =
          Nights(bookings'[Len(bookings')].from, bookings'[Len(bookings')].to)
            * properties[bookings'[Len(bookings')].propertyId]]_vars

\* The calendar day (UTC) the clock shows.
Today == now \div HoursPerDay

\* C10: a request whose from is today's date, otherwise valid, is not
\* rejected as being in the past, at whatever time of day it is processed, by
\* validateBookingDates (the availability check), POST /api/booking or
\* prepareBooking.
C10_SameDayAllowed ==
  [][\A p \in Procs :
       (/\ Returns(p)
        /\ req'[p].op \in {"post", "prepare", "availability"}
        /\ req'[p].propertyId \in DOMAIN properties
        /\ req'[p].from = Today
        /\ req'[p].from < req'[p].to)
       => result'[p] # "past"]_vars

\* No stored booking of the request's property holds dates.
FreeProperty(r) ==
  \A i \in DOMAIN bookings :
    bookings[i].propertyId = r.propertyId => bookings[i].status = "cancelled"

\* The outcomes that say the requested range is not a valid one.
InvalidRange == {"invalid_order", "too_long", "too_short"}

\* C11: duration bounds. A creation request with a from that is not in the
\* past, on a free stored property, succeeds for a span of 1 night and for a
\* span of exactly 365 nights; with from = to and with a span of 366 nights it
\* fails with the invalid-range error and no booking is stored.
C11_DurationBounds ==
  [][\A p \in Procs :
       (/\ Returns(p) /\ Creation(req'[p])
        /\ req'[p].propertyId \in DOMAIN properties
        /\ ParseDate(req'[p].from) >= now
        /\ FreeProperty(req'[p]))
       => LET span == req'[p].to - req'[p].from
          IN /\ span \in {1, MaxDurationDays}
                  => (result'[p] = "created" /\ Inserted(req'[p]))
             /\ span \in {0, MaxDurationDays + 1}
                  => (result'[p] \in InvalidRange /\ bookings' = bookings)]_vars

\* The Creator's validation rejects the request: the property is not stored
\* or validateBookingDates finds the dates invalid.
CreatorRejects(r) ==
  \/ r.propertyId \notin DOMAIN properties
  \/ validateBookingDates(ParseDate(r.from), ParseDate(r.to), now) # "valid"

\* The outcomes of a failed validation.
ValidationErrors == InvalidRange \cup {"past", "property_not_found"}

\* C12: prepareBooking and confirmBooking validate as the Creator does. Each
\* rejects an input (property, from, to) exactly when the Creator's validation
\* rejects it, and otherwise passes it on to the availability check.
C12_SameValidation ==
  [][\A p \in Procs :
       (Returns(p) /\ req'[p].op \in {"prepare", "confirm"})
       => (result'[p] \in ValidationErrors <=> CreatorRejects(req'[p]))]_vars

\* C13: a creation request that fails (validation, authorization, property
\* not found, conflict) leaves the stored bookings exactly as they were: the
\* step in which it answers writes nothing, and every step that changes the
\* store is the last step of a creation that succeeds or of a cancellation.
C13_FailureWritesNothing ==
  [][/\ \A p \in Procs :
          (Returns(p) /\ Creation(req'[p]) /\ result'[p] # "created")
          => bookings' = bookings
     /\ bookings' # bookings
          => \E p \in Procs : Returns(p) /\ result'[p] \in {"created", "cancelled"}]_vars

\* C13 witness: a POST has just been refused with a conflict while one booking
\* is stored.
C13_Witness ==
  /\ pc[Solo] = "done" /\ req[Solo].op = "post" /\ result[Solo] = "conflict"
  /\ conflictingBookings[Solo] # {}
  /\ Len(bookings) = 1

\* C14: every conflict outcome of a creation request carries the intervals of
\* the conflicting bookings: when POST /api/booking or confirmBooking answers
\* conflict, the answer holds the from and to of every stored booking that
\* overlaps the requested interval.
C14_ConflictCarriesIntervals ==
  [][\A p \in Procs :
       (Returns(p) /\ Creation(req'[p]) /\ result'[p] = "conflict")
       => \A i \in Blocking(req'[p]) :
            \E c \in conflictingBookings'[p] :
              c.from = bookings[i].from /\ c.to = bookings[i].to]_vars

\* A handler is called in this step: it was free and now runs or has answered.
Called(p) == Free(p) /\ (Returns(p) \/ ~ Free(p)')

\* C15: cancelBooking sets a booking's status to cancelled only when the
\* booking exists, the caller is its holder and it is not already cancelled,
\* and then changes nothing else; called for an unknown id, by a caller who is
\* not the holder or on an already cancelled booking it fails at once with the
\* matching error and leaves every stored booking unchanged. No other
\* operation cancels a booking.
C15_CancelRules ==
  [][/\ \A p \in Procs :
          (Called(p) /\ req'[p].op = "cancel")
          => LET id == req'[p].bookingId
             IN /\ bookings' = bookings
                /\ IF id \notin DOMAIN bookings
                     THEN Returns(p) /\ result'[p] = "booking_not_found"
                   ELSE IF bookings[id].guestId # req'[p].user
                     THEN Returns(p) /\ result'[p] = "not_owner"
                   ELSE IF bookings[id].status = "cancelled"
                     THEN Returns(p) /\ result'[p] = "already_cancelled"
                   ELSE ~ Returns(p)
     /\ \A p \in Procs :
          (Returns(p) /\ req'[p].op = "cancel" /\ result'[p] = "cancelled")
          => /\ req'[p].bookingId \in DOMAIN bookings
             /\ bookings[req'[p].bookingId].guestId = req'[p].user
             /\ bookings' = [bookings EXCEPT ![req'[p].bookingId].status = "cancelled"]
     /\ (\E i \in DOMAIN bookings :
           bookings[i].status # "cancelled" /\ bookings'[i].status = "cancelled")
          => \E p \in Procs :
               Returns(p) /\ req'[p].op = "cancel" /\ result'[p] = "cancelled"]_vars

\* C15 witness: a guest who does not hold booking 1 has just been refused its
\* cancellation, and the booking still holds its dates.
C15_Witness ==
  /\ pc[Solo] = "done" /\ req[Solo].op = "cancel" /\ result[Solo] = "not_owner"
  /\ req[Solo].bookingId = 1
  /\ Len(bookings) >= 1
  /\ bookings[1].guestId # req[Solo].user
  /\ bookings[1].status = "confirmed"

\* The dates of the request pass validateBookingDates.
ValidDates(r) == validateBookingDates(ParseDate(r.from), ParseDate(r.to), now) = "valid"

\* C16: the single availability check never answers available for a property
\* that is not stored (with valid dates it fails with property-not-found);
\* for a stored property it answers available exactly when no non-cancelled
\* booking of the property overlaps the interval, and otherwise lists exactly
\* the overlapping non-cancelled bookings of the property as the conflicts.
C16_SingleAvailability ==
  [][\A p \in Procs :
       (Returns(p) /\ req'[p].op = "availability")
       => IF req'[p].propertyId \notin DOMAIN properties
            THEN /\ result'[p] # "available"
                 /\ ValidDates(req'[p]) => result'[p] = "property_not_found"
            ELSE ValidDates(req'[p])
                 => IF Blocking(req'[p]) = {}
                      THEN result'[p] = "available" /\ conflictingBookings'[p] = {}
                      ELSE /\ result'[p] = "conflict"
                           /\ conflictingBookings'[p] =
                                {[id |-> i, from |-> bookings[i].from,
                                  to |-> bookings[i].to, status |-> bookings[i].status] :
                                   i \in Blocking(req'[p])}]_vars

\* C16 witness: the check has just answered not available for a stored
\* property, listing one conflict, while a cancelled booking is stored too.
C16_Witness ==
  /\ pc[Solo] = "done" /\ req[Solo].op = "availability" /\ result[Solo] = "conflict"
  /\ Cardinality(conflictingBookings[Solo]) = 1
  /\ \E i \in DOMAIN bookings : bookings[i].status = "cancelled"

\* What GET /api/availability answers for one range alone: the validation
\* error, or the answer of the availability check.
SingleOutcome(pid, range) ==
  IF validateBookingDates(ParseDate(range[1]), ParseDate(range[2]), now) # "valid"
    THEN validateBookingDates(ParseDate(range[1]), ParseDate(range[2]), now)
    ELSE checkPropertyAvailability(bookings, properties, pid,
           ParseDate(range[1]), ParseDate(range[2]))

\* The conflicts that single answer lists.
SingleConflicts(pid, range) ==
  IF validateBookingDates(ParseDate(range[1]), ParseDate(range[2]), now) # "valid"
    THEN {}
    ELSE availabilityConflicts(bookings, properties, pid,
           ParseDate(range[1]), ParseDate(range[2]))

\* C17: the bulk availability check evaluates each range independently. It
\* returns one entry per range, in the order given; a range that fails date
\* validation gives available = false with the error for that entry only; and
\* each entry equals what the single check answers for that range alone on
\* the same store.
C17_BulkIsPerRange ==
  [][\A p \in Procs :
       (Returns(p) /\ req'[p].op = "bulk" /\ Len(req'[p].dateRanges) > 0)
       => /\ result'[p] = "results"
          /\ Len(results'[p]) = Len(req'[p].dateRanges)
          /\ \A k \in 1 .. Len(req'[p].dateRanges) :
               LET range == req'[p].dateRanges[k]
                   entry == results'[p][k]
                   single == SingleOutcome(req'[p].propertyId, range)
               IN /\ entry.from = range[1] /\ entry.to = range[2]
                  /\ entry.available = (single = "available")
                  /\ entry.conflictingBookings =
                       SingleConflicts(req'[p].propertyId, range)
                  /\ single \in ValidationErrors => entry.error = single
                  /\ single \in {"available", "conflict"} => entry.error = "none"]_vars

\* C17 witness: a bulk check of two ranges, the first failing validation and
\* the second free, has answered one entry for each.
C17_Witness ==
  /\ pc[Solo] = "done" /\ req[Solo].op = "bulk" /\ result[Solo] = "results"
  /\ Len(results[Solo]) = 2
  /\ ~ results[Solo][1].available /\ results[Solo][1].error = "invalid_order"
  /\ results[Solo][2].available
  /\ Len(bookings) >= 1

\* C18: bookings on different properties never contend. A creation request,
\* an availability check or a quote for a property is answered conflict only
\* because of a stored booking of that property, and a booking is stored or
\* changed only by a creation for its own property or by its own
\* cancellation, whatever is added, cancelled or being created elsewhere.
C18_PropertiesAreIndependent ==
  [][/\ \A p \in Procs :
          (/\ Returns(p)
           /\ req'[p].op \in {"post", "confirm", "prepare", "availability"}
           /\ result'[p] = "conflict")
          => Blocking(req'[p]) # {}
     /\ \A i \in DOMAIN bookings' :
          (i \notin DOMAIN bookings \/ bookings'[i] # bookings[i])
          => \E p \in Procs :
               /\ Returns(p)
               /\ \/ Creation(req'[p]) /\ req'[p].propertyId = bookings'[i].propertyId
                  \/ req'[p].op = "cancel" /\ req'[p].bookingId = i]_vars

\* C18 witness: a creation has just succeeded on one property while the other
\* property has a confirmed booking of the same dates.
C18_Witness ==
  \E p \in Procs :
    /\ pc[p] = "done" /\ Creation(req[p]) /\ result[p] = "created"
    /\ Len(bookings) = 2
    /\ bookings[2].propertyId = req[p].propertyId
    /\ bookings[1].propertyId # bookings[2].propertyId
    /\ bookings[1].status = "confirmed" /\ bookings[2].status = "confirmed"
    /\ bookings[1].from = bookings[2].from /\ bookings[1].to = bookings[2].to

\* C19: once a booking is stored, no operation (cancellations, further
\* creations, availability checks, quotes, listings, a PATCH of the
\* property's price) changes its id, propertyId, guestId, from, to or
\* totalPrice; only its status changes, and totalPrice is never recomputed.
C19_BookingFieldsAreFixed ==
  [][\A i \in DOMAIN bookings :
       /\ i \in DOMAIN bookings'
       /\ bookings'[i].propertyId = bookings[i].propertyId
       /\ bookings'[i].guestId = bookings[i].guestId
       /\ bookings'[i].from = bookings[i].from
       /\ bookings'[i].to = bookings[i].to
       /\ bookings'[i].totalPrice = bookings[i].totalPrice]_vars

\* C19 witness: the host has just changed the price of a property whose
\* booking, since cancelled, still records the total of the old price.
C19_Witness ==
  /\ pc[Solo] = "done" /\ req[Solo].op = "patch" /\ result[Solo] = "updated"
  /\ Len(bookings) >= 1
  /\ bookings[1].status = "cancelled"
  /\ properties[bookings[1].propertyId] # NightlyPrice
  /\ bookings[1].totalPrice = Nights(bookings[1].from, bookings[1].to) * NightlyPrice

\* The operations that only read the bookings.
ReadOps == {"prepare", "availability", "bulk", "mybookings", "listing"}

\* The handler takes a step: it is called, moves on or answers.
Steps(p) ==
  \/ pc'[p] # pc[p] \/ req'[p] # req[p] \/ result'[p] # result[p]
  \/ results'[p] # results[p] \/ conflictingBookings'[p] # conflictingBookings[p]

\* C20: the read-side operations create no record and place no hold. Every
\* step of prepareBooking, of the single and bulk availability checks, of
\* getMyBookings and of the property bookings listing leaves the stored
\* bookings as they were, whether the operation succeeds or fails.
C20_ReadsWriteNothing ==
  [][\A p \in Procs :
       (Steps(p) /\ req'[p].op \in ReadOps) => bookings' = bookings]_vars

\* C20 witness: a quote has just been given for a stay while the store holds
\* one booking, and the quote is the conversation's pending booking.
C20_Witness ==
  /\ pc[Solo] = "done" /\ req[Solo].op = "prepare" /\ result[Solo] = "quoted"
  /\ pendingBooking[req[Solo].user].propertyId = req[Solo].propertyId
  /\ Len(bookings) = 1

\* The answers POST /api/booking gives: success, 400 (a missing field, an
\* unparsable date, a date check), 401, 403, 404, 409 and 500.
TypedResults ==
  {"created", "missing_fields", "invalid_date", "invalid_order", "past", "too_long",
   "unauthorized", "forbidden", "property_not_found", "conflict", "error"}

\* C21: every POST /api/booking request ends with a typed HTTP result
\* (success, 400, 401, 403, 404, 409 or 500) on every execution path,
\* including a failure before the transaction has started (the body cannot be
\* parsed, authentication throws); no failure leaves the handler as an
\* exception.
C21_PostAlwaysAnswers ==
  \A p \in Procs :
    (pc[p] = "done" /\ req[p].op = "post") => result[p] \in TypedResults

\* The number of calls of a method in a log.
Count(log, method) == Cardinality({k \in DOMAIN log : log[k] = method})

\* C28: the transaction protocol of POST /api/booking. abortTransaction is
\* invoked only while a transaction is in progress (not before
\* startTransaction, not after a commit or an earlier abort); and when the
\* handler has ended, a started transaction has been ended exactly once, by
\* commit or by abort, before the session was ended, and the session has been
\* ended exactly once.
C28_TransactionProtocol ==
  \A p \in Procs :
    LET log == session[p]
    IN /\ \A k \in DOMAIN log :
            log[k] = "abortTransaction" => inTransaction(SubSeq(log, 1, k - 1))
       /\ (pc[p] = "done" /\ req[p].op = "post")
            => /\ Count(log, "endSession") = 1
               /\ log[Len(log)] = "endSession"
               /\ ~ inTransaction(log)
               /\ Count(log, "commitTransaction") + Count(log, "abortTransaction")
                    = Count(log, "startTransaction")

\* The instants a request may name: every half day up to the last day.
Instants == {h * (HoursPerDay \div 2) : h \in 0 .. 2 * (MaxDay + 1)}

\* The booked date the listing of a property gives for a stored booking.
BookedDate(b) == [from |-> FormatDate(b.from), to |-> FormatDate(b.to)]

\* C22: the independently written overlap formulas agree. For every stored
\* booking with from < to and every requested interval with from < to, the
\* three-case query (pre-save hook, checkAvailability), the two-comparison
\* query (checkPropertyAvailability, POST /api/booking) and, for the whole-day
\* stays the form selects, the form's checkDateOverlap select the same
\* bookings as conflicting.
C22_OverlapFormulasAgree ==
  \A i \in DOMAIN bookings :
    \A s, e \in Instants :
      (bookings[i].from < bookings[i].to /\ s < e /\ bookings[i].status # "cancelled")
      => LET b == bookings[i]
         IN /\ ThreeCaseFilter(b, b.propertyId, s, e) <=> OverlapFilter(b, b.propertyId, s, e)
            /\ (s = UTCDay(s) /\ e = UTCDay(e))
                 => (selectedOverlaps(BookedDate(b), FormatDate(s), FormatDate(e))
                       <=> OverlapFilter(b, b.propertyId, s, e))

C24_StatusLifecycle ==
  [][\A i \in DOMAIN bookings' :
       /\ bookings'[i].status \in {"confirmed", "cancelled"}
       /\ IF i \in DOMAIN bookings
            THEN \/ bookings'[i].status = bookings[i].status
                 \/ bookings[i].status = "confirmed" /\ bookings'[i].status = "cancelled"
            ELSE bookings'[i].status = "confirmed"]_vars

\* C24 witness: a booking created by POST /api/booking and since cancelled is
\* stored next to a confirmed one created by confirmBooking.
C24_Witness ==
  /\ Len(bookings) = 2
  /\ bookings[1].status = "cancelled" /\ bookings[2].status = "confirmed"
  /\ pc[Solo] = "done" /\ req[Solo].op = "confirm" /\ result[Solo] = "created"
  /\ bookings[1].totalPrice = FormPrice("p1", 1, 2)
  /\ bookings[1].from = ParseDate(1) /\ bookings[1].to = ParseDate(2)

\* The booking confirmBooking writes for a request: the requested property,
\* holder and dates, and nights * the property's price of the moment.
Committed(r) ==
  [propertyId |-> r.propertyId, guestId |-> r.guestId,
   from |-> ParseDate(r.from), to |-> ParseDate(r.to),
   totalPrice |-> Nights(ParseDate(r.from), ParseDate(r.to)) * properties[r.propertyId],
   status |-> "confirmed"]

\* C25: commit revalidates from scratch. The outcome of confirmBooking and the
\* booking it writes are determined by the stored bookings, the property and
\* the arguments alone, whether or not a quote was issued before and whatever
\* quote the conversation holds: it answers conflict and writes nothing
\* exactly when a stored non-cancelled booking overlaps the stay, and
\* otherwise inserts the booking with the total computed from the property's
\* price; the cached quote is read by none of these.
C25_CommitRevalidates ==
  [][\A p \in Procs :
       (/\ Returns(p) /\ req'[p].op = "confirm"
        /\ req'[p].propertyId \in DOMAIN properties
        /\ req'[p].from < req'[p].to)
       => IF Blocking(req'[p]) # {}
            THEN result'[p] = "conflict" /\ bookings' = bookings
            ELSE result'[p] = "created" /\ bookings' = Append(bookings, Committed(req'[p]))]_vars

\* C25 witness: confirmBooking has just refused a stay for which the
\* conversation holds a quote, given before the stay was taken and before the
\* host changed the price.
C25_Witness ==
  /\ pc[Solo] = "done" /\ req[Solo].op = "confirm" /\ result[Solo] = "conflict"
  /\ Quoted(req[Solo])
  /\ Blocking(req[Solo]) # {}
  /\ pendingBooking[req[Solo].user].totalPrice # Committed(req[Solo]).totalPrice

\* C26: the holder of a created booking is the authenticated caller. A booking
\* created through confirm_booking has guestId equal to the userId of the
\* session, even when the tool arguments name a guestId of their own; POST
\* /api/booking creates a booking only when the guestId of the request equals
\* the authenticated user's id and that user is a guest; and cancel_booking
\* cancels only bookings whose guestId equals the session's userId.
C26_HolderIsCaller ==
  [][/\ Len(bookings') > Len(bookings)
          => \E p \in Procs :
               /\ Returns(p) /\ Creation(req'[p]) /\ result'[p] = "created"
               /\ bookings'[Len(bookings')].guestId = req'[p].user
               /\ req'[p].op = "post"
                    => /\ req'[p].guestId = req'[p].user
                       /\ req'[p].user # NoUser
                       /\ role(req'[p].user) = "guest"
     /\ \A i \in DOMAIN bookings :
          (bookings[i].status # "cancelled" /\ bookings'[i].status = "cancelled")
          => \E p \in Procs :
               /\ Returns(p) /\ req'[p].op = "cancel" /\ req'[p].bookingId = i
               /\ bookings[i].guestId = req'[p].user]_vars

\* C26 witness: a confirm_booking call whose arguments name another user's
\* guestId has just created a booking, and the booking is held by the
\* session's user.
C26_Witness ==
  /\ pc[Solo] = "done" /\ req[Solo].op = "confirm" /\ result[Solo] = "created"
  /\ req[Solo].asked # req[Solo].user
  /\ bookings[Len(bookings)].guestId = req[Solo].user

\* The quote processAgentMessage keeps for a successful prepare_booking.
QuoteOf(r) ==
  [propertyId |-> r.propertyId, checkIn |-> r.from, checkOut |-> r.to,
   totalPrice |-> Nights(ParseDate(r.from), ParseDate(r.to)) * properties[r.propertyId]]

\* The handler has just returned the given outcome of a tool call of a user.
Answered(p, tool, u, outcome) ==
  Returns(p) /\ req'[p].op = tool /\ req'[p].user = u /\ result'[p] = outcome

C29_ExactlyOneCategory ==
  \A u \in Guests :
    \A i \in DOMAIN bookings :
      (bookings[i].guestId = u /\ bookings[i].status # "cancelled")
      => /\ (i \in upcomingTrips(bookings, u, now)) # (i \in pastTrips(bookings, u, now))
         /\ (i \in myBookingsQuery(bookings, u, "upcoming", now))
              # (i \in myBookingsQuery(bookings, u, "past", now))

\* C30: after any sequence of property creations, property deletions, booking
\* creations and cancellations, every stored booking's propertyId refers to a
\* property that still exists, so getMyBookings and cancelBooking, which
\* dereference the populated property of each booking, never fail on a
\* booking whose property is missing.
C30_PropertyOfBookingExists ==
  /\ \A i \in DOMAIN bookings : bookings[i].propertyId \in DOMAIN properties
  /\ \A p \in Procs :
       (pc[p] = "done" /\ req[p].op \in {"mybookings", "cancel"}) => result[p] # "error"

====
